---- MODULE Spec2Model ----
(***************************************************************************)
(* Model of the routing code generators of golang-bazel-starter: the spec  *)
(* loader and validator (tools/codegen/interface-gen/spec.go), the         *)
(* messenger generator's receiver predicate and field list                 *)
(* (tools/codegen/messenger-gen/generator.go) and the routing methods of   *)
(* the generated messenger.                                                *)
(***************************************************************************)
EXTENDS Integers, Sequences, FiniteSets, TLC

(***************************************************************************)
(* Bounds and input alphabets.                                             *)
(***************************************************************************)
\* A routing document has at most MaxSize entries in total: handler
\* declarations + routes + message routes + receiver names.
MaxSize == 6

Packages == {"", "interfaces"}
HandlerDecls ==
    { [name |-> "A", type |-> "pkg.A"], [name |-> "B", type |-> "pkg.B"],
      [name |-> "", type |-> "pkg.A"], [name |-> "A", type |-> ""] }
SourceNames == {"", "A", "C"}
ReceiverNames == {"A", "B", "C"}
MessageTypes == {"", "*pb.MProto"}
ResponseType == "(*pb.R, error)"

(***************************************************************************)
(* The documents: every shape of at most MaxSize entries, filled with      *)
(* every choice of names.  A shape is the list, per route, of the list,    *)
(* per message route, of the number of receivers.                          *)
(***************************************************************************)
RECURSIVE MessageShapesOfSize(_)
MessageShapesOfSize(n) ==
    IF n = 0 THEN { <<>> }
    ELSE UNION { { <<c - 1>> \o rest : rest \in MessageShapesOfSize(n - c) } :
                 c \in 1..n }

RECURSIVE RouteShapesOfSize(_)
RouteShapesOfSize(n) ==
    IF n = 0 THEN { <<>> }
    ELSE UNION { { <<ms>> \o rest : ms \in MessageShapesOfSize(c - 1),
                                    rest \in RouteShapesOfSize(n - c) } :
                 c \in 1..n }

RECURSIVE SumSeq(_)
SumSeq(q) == IF q = <<>> THEN 0 ELSE Head(q) + SumSeq(Tail(q))

\* Number of message routes, and of receivers, in the routes before route i.
RECURSIVE MessagesBefore(_, _)
MessagesBefore(sh, i) ==
    IF i <= 1 THEN 0 ELSE Len(sh[i - 1]) + MessagesBefore(sh, i - 1)

RECURSIVE ReceiversBefore(_, _)
ReceiversBefore(sh, i) ==
    IF i <= 1 THEN 0 ELSE SumSeq(sh[i - 1]) + ReceiversBefore(sh, i - 1)

BuildDocument(p, hs, sh, src, mts, rcv) ==
    [package  |-> p,
     handlers |-> hs,
     routes   |->
       [i \in 1..Len(sh) |->
          [source   |-> src[i],
           messages |->
             [j \in 1..Len(sh[i]) |->
                [message   |-> mts[MessagesBefore(sh, i) + j],
                 response  |-> ResponseType,
                 receivers |->
                   [k \in 1..sh[i][j] |->
                      rcv[ReceiversBefore(sh, i)
                          + SumSeq(SubSeq(sh[i], 1, j - 1)) + k]]]]]]]

(***************************************************************************)
(* Errors.  An error value carries what fmt.Errorf formats into it.        *)
(***************************************************************************)
Err(kind, at, name, available) ==
    [kind |-> kind, at |-> at, name |-> name, available |-> available]

Nil == Err("nil", <<>>, "", <<>>)

\* fmt.Errorf("<msg>: %w", e): a new error that wraps e.
Wrap(msg, e) ==
    [kind |-> "wrapped", at |-> <<>>, name |-> msg, available |-> <<>>,
     cause |-> e]

\* errors.Unwrap
Cause(e) == IF e.kind = "wrapped" THEN e.cause ELSE e

(***************************************************************************)
(* spec.go: getHandlerNamesList and Validate.                              *)
(***************************************************************************)
getHandlerNamesList(handlers) ==
    [i \in 1..Len(handlers) |-> handlers[i].name]

\* handlerNames := make(map[string]bool); handlerNames[h.Name] = true
handlerNamesMap(handlers) ==
    { handlers[i].name : i \in 1..Len(handlers) }

\* for i, h := range s.Handlers { name / type required }
RECURSIVE ValidateHandlers(_, _)
ValidateHandlers(handlers, i) ==
    IF i > Len(handlers) THEN Nil
    ELSE IF handlers[i].name = ""
         THEN Err("handler_name_required", <<i - 1>>, "", <<>>)
    ELSE IF handlers[i].type = ""
         THEN Err("handler_type_required", <<i - 1>>, "", <<>>)
    ELSE ValidateHandlers(handlers, i + 1)

\* Faulty variant: the receiver names are not checked against the handlers.
ValidateReceiversUnchecked(s, i, j, receivers, k) == Nil

\* for k, receiver := range m.Receivers { if !handlerNames[receiver] ... }
RECURSIVE ValidateReceivers(_, _, _, _, _)
ValidateReceivers(s, i, j, receivers, k) ==
    IF k > Len(receivers) THEN Nil
    ELSE IF receivers[k] \notin handlerNamesMap(s.handlers)
         THEN Err("unknown_receiver", <<i - 1, j - 1, k - 1>>, receivers[k],
                  getHandlerNamesList(s.handlers))
    ELSE ValidateReceivers(s, i, j, receivers, k + 1)

\* Faulty variant: an empty receivers list is not rejected.
RECURSIVE ValidateMessagesAllowEmpty(_, _, _, _)
ValidateMessagesAllowEmpty(s, i, messages, j) ==
    IF j > Len(messages) THEN Nil
    ELSE IF messages[j].message = ""
         THEN Err("message_type_required", <<i - 1, j - 1>>, "", <<>>)
    ELSE LET e == ValidateReceivers(s, i, j, messages[j].receivers, 1)
         IN  IF e # Nil THEN e
             ELSE ValidateMessagesAllowEmpty(s, i, messages, j + 1)

\* for j, m := range r.Messages { ... }
RECURSIVE ValidateMessages(_, _, _, _)
ValidateMessages(s, i, messages, j) ==
    IF j > Len(messages) THEN Nil
    ELSE IF messages[j].message = ""
         THEN Err("message_type_required", <<i - 1, j - 1>>, "", <<>>)
    ELSE IF Len(messages[j].receivers) = 0
         THEN Err("receiver_required", <<i - 1, j - 1>>, "", <<>>)
    ELSE LET e == ValidateReceivers(s, i, j, messages[j].receivers, 1)
         IN  IF e # Nil THEN e ELSE ValidateMessages(s, i, messages, j + 1)

\* Faulty variant: the sources of all routes are checked before any message route.
RECURSIVE SourcesFrom(_, _)
SourcesFrom(s, i) ==
    IF i > Len(s.routes) THEN Nil
    ELSE IF s.routes[i].source = ""
         THEN Err("source_required", <<i - 1>>, "", <<>>)
    ELSE IF s.routes[i].source \notin handlerNamesMap(s.handlers)
         THEN Err("unknown_source", <<i - 1>>, s.routes[i].source,
                  getHandlerNamesList(s.handlers))
    ELSE SourcesFrom(s, i + 1)

RECURSIVE MessagesFrom(_, _)
MessagesFrom(s, i) ==
    IF i > Len(s.routes) THEN Nil
    ELSE IF Len(s.routes[i].messages) = 0
         THEN Err("message_required", <<i - 1>>, s.routes[i].source, <<>>)
    ELSE LET e == ValidateMessages(s, i, s.routes[i].messages, 1)
         IN  IF e # Nil THEN e ELSE MessagesFrom(s, i + 1)

ValidateRoutesSourcesFirst(s, i) ==
    LET e == SourcesFrom(s, i)
    IN  IF e # Nil THEN e ELSE MessagesFrom(s, i)

\* for i, r := range s.Routes { ... }
RECURSIVE ValidateRoutes(_, _)
ValidateRoutes(s, i) ==
    IF i > Len(s.routes) THEN Nil
    ELSE LET r == s.routes[i] IN
         IF r.source = ""
         THEN Err("source_required", <<i - 1>>, "", <<>>)
         ELSE IF r.source \notin handlerNamesMap(s.handlers)
         THEN Err("unknown_source", <<i - 1>>, r.source,
                  getHandlerNamesList(s.handlers))
         ELSE IF Len(r.messages) = 0
         THEN Err("message_required", <<i - 1>>, r.source, <<>>)
         ELSE LET e == ValidateMessages(s, i, r.messages, 1)
              IN  IF e # Nil THEN e ELSE ValidateRoutes(s, i + 1)

Validate(s) ==
    IF s.package = "" THEN Err("package_required", <<>>, "", <<>>)
    ELSE IF Len(s.handlers) = 0 THEN Err("handler_required", <<>>, "", <<>>)
    ELSE IF Len(s.routes) = 0 THEN Err("route_required", <<>>, "", <<>>)
    ELSE LET e == ValidateHandlers(s.handlers, 1)
         IN  IF e # Nil THEN e ELSE ValidateRoutes(s, 1)

\* LoadSpec: read and parse the file (the document is spec), then
\*   if err := spec.Validate(); err != nil {
\*       return nil, fmt.Errorf("validation failed: %w", err) }
LoadSpecError(s) ==
    LET e == Validate(s)
    IN  IF e # Nil THEN Wrap("validation failed", e) ELSE Nil

(***************************************************************************)
(* generator.go (messenger-gen): ReceivesMessages and                      *)
(* HandlersReceivingMessages.                                              *)
(***************************************************************************)
\* Faulty variant: a handler that is the source of a route counts as receiving.
ReceivesOrSends(s, handlerName) ==
    \E i \in 1..Len(s.routes) :
      \/ s.routes[i].source = handlerName
      \/ \E j \in 1..Len(s.routes[i].messages) :
           \E k \in 1..Len(s.routes[i].messages[j].receivers) :
             s.routes[i].messages[j].receivers[k] = handlerName

ReceivesMessages(s, handlerName) ==
    \E i \in 1..Len(s.routes) :
      \E j \in 1..Len(s.routes[i].messages) :
        \E k \in 1..Len(s.routes[i].messages[j].receivers) :
          s.routes[i].messages[j].receivers[k] = handlerName

\* Faulty variant: the receiving handlers are collected in reverse order.
RECURSIVE HandlersReceivingReversed(_, _)
HandlersReceivingReversed(s, i) ==
    IF i > Len(s.handlers) THEN <<>>
    ELSE IF ReceivesMessages(s, s.handlers[i].name)
         THEN HandlersReceivingReversed(s, i + 1) \o <<s.handlers[i]>>
         ELSE HandlersReceivingReversed(s, i + 1)

\* for _, handler := range g.spec.Handlers { if ReceivesMessages: append }
RECURSIVE HandlersReceivingFrom(_, _)
HandlersReceivingFrom(s, i) ==
    IF i > Len(s.handlers) THEN <<>>
    ELSE IF ReceivesMessages(s, s.handlers[i].name)
         THEN <<s.handlers[i]>> \o HandlersReceivingFrom(s, i + 1)
         ELSE HandlersReceivingFrom(s, i + 1)

HandlersReceivingMessages(s) == HandlersReceivingFrom(s, 1)

(***************************************************************************)
(* Strings.  A token of the document is a string; Chars gives its          *)
(* spelling, on which the string functions of the generators work.         *)
(***************************************************************************)
Chars(s) ==
    CASE s = "" -> <<>>
      [] s = "A" -> <<"A">>
      [] s = "B" -> <<"B">>
      [] s = "C" -> <<"C">>
      [] s = "a" -> <<"a">>
      [] s = "p.A" -> <<"p", ".", "A">>
      [] s = "q.B" -> <<"q", ".", "B">>
      [] s = "pkg.A" -> <<"p", "k", "g", ".", "A">>
      [] s = "pkg.B" -> <<"p", "k", "g", ".", "B">>
      [] s = "*pb.MProto" ->
           <<"*", "p", "b", ".", "M", "P", "r", "o", "t", "o">>
      [] s = "*p.MProto" -> <<"*", "p", ".", "M", "P", "r", "o", "t", "o">>
      [] s = "*p.M" -> <<"*", "p", ".", "M">>
      [] s = "*p.NProto" -> <<"*", "p", ".", "N", "P", "r", "o", "t", "o">>

\* strings.HasPrefix, strings.TrimPrefix, strings.HasSuffix, strings.TrimSuffix
HasPrefix(s, prefix) ==
    Len(s) >= Len(prefix) /\ SubSeq(s, 1, Len(prefix)) = prefix

TrimPrefix(s, prefix) ==
    IF HasPrefix(s, prefix) THEN SubSeq(s, Len(prefix) + 1, Len(s)) ELSE s

HasSuffix(s, suffix) ==
    Len(s) >= Len(suffix)
      /\ SubSeq(s, Len(s) - Len(suffix) + 1, Len(s)) = suffix

TrimSuffix(s, suffix) ==
    IF HasSuffix(s, suffix) THEN SubSeq(s, 1, Len(s) - Len(suffix)) ELSE s

\* strings.Split(s, sep) for a separator of one character: the pieces
\* between the separators, at least one piece.
RECURSIVE SplitFrom(_, _, _, _)
SplitFrom(s, sep, i, piece) ==
    IF i > Len(s) THEN <<piece>>
    ELSE IF s[i] = sep THEN <<piece>> \o SplitFrom(s, sep, i + 1, <<>>)
    ELSE SplitFrom(s, sep, i + 1, Append(piece, s[i]))

Split(s, sep) == SplitFrom(s, sep, 1, <<>>)

\* unicode.ToTitle on the letters in use.
ToTitle(c) ==
    CASE c = "a" -> "A"
      [] c = "p" -> "P"
      [] c = "q" -> "Q"
      [] OTHER -> c

\* strings.Title on a single word: the first letter in title case.
Title(s) == IF s = <<>> THEN s ELSE <<ToTitle(s[1])>> \o Tail(s)

ProtoSuffix == <<"P", "r", "o", "t", "o">>

\* Faulty variant: the base name keeps the package qualifier (the segment
\* before the first '.' is taken instead of the one after the last).
baseNameFirstSegment(s) ==
    LET parts == Split(TrimPrefix(s, <<"*">>), ".")
    IN  TrimSuffix(parts[1], ProtoSuffix)

\* baseName of messenger-gen (its own copy of the template function).
baseNameMessenger(s) ==
    LET trimmed == TrimPrefix(s, <<"*">>)
        parts   == Split(trimmed, ".")
    IN  IF Len(parts) > 0
        THEN TrimSuffix(parts[Len(parts)], ProtoSuffix)
        ELSE trimmed

\* baseName of interface-gen:
\* "*configpb.AccountCreationRequestProto" -> "AccountCreationRequest"
baseName(s) ==
    LET trimmed == TrimPrefix(s, <<"*">>)
        parts   == Split(trimmed, ".")
    IN  IF Len(parts) > 0
        THEN TrimSuffix(parts[Len(parts)], ProtoSuffix)
        ELSE trimmed

(***************************************************************************)
(* generator.go (interface-gen): the routes a handler sends and receives.  *)
(***************************************************************************)
\* for _, route := range g.spec.Routes { if route.Source == handlerName ... }
RECURSIVE SelectRoutes(_, _, _)
SelectRoutes(routes, handlerName, i) ==
    IF i > Len(routes) THEN <<>>
    ELSE IF routes[i].source = handlerName
         THEN <<routes[i]>> \o SelectRoutes(routes, handlerName, i + 1)
         ELSE SelectRoutes(routes, handlerName, i + 1)

\* RoutesForHandler: all routes where the given handler is the source.
RoutesForHandler(s, handlerName) == SelectRoutes(s.routes, handlerName, 1)

\* HasSendableMessages: len(RoutesForHandler(handlerName)) > 0
HasSendableMessages(s, handlerName) ==
    Len(RoutesForHandler(s, handlerName)) > 0

\* for _, receiver := range msg.Receivers { if receiver == handlerName ... }
IsReceiverOf(msg, handlerName) ==
    \E k \in 1..Len(msg.receivers) : msg.receivers[k] = handlerName

\* filteredMessages: the messages of a route that name the handler as a
\* receiver, each once (the inner loop breaks at the first match).
RECURSIVE FilteredMessages(_, _, _)
FilteredMessages(messages, handlerName, j) ==
    IF j > Len(messages) THEN <<>>
    ELSE IF IsReceiverOf(messages[j], handlerName)
         THEN <<messages[j]>> \o FilteredMessages(messages, handlerName, j + 1)
         ELSE FilteredMessages(messages, handlerName, j + 1)

\* Faulty variant: the first match ends the scan of the whole route, so only
\* the first message of a route that names the handler is kept.
RECURSIVE RoutesReceivedByFirstOnly(_, _, _)
RoutesReceivedByFirstOnly(s, handlerName, i) ==
    IF i > Len(s.routes) THEN <<>>
    ELSE LET filtered == FilteredMessages(s.routes[i].messages, handlerName, 1)
         IN  IF filtered # <<>>
             THEN <<[source |-> s.routes[i].source,
                     messages |-> <<filtered[1]>>]>>
                  \o RoutesReceivedByFirstOnly(s, handlerName, i + 1)
             ELSE RoutesReceivedByFirstOnly(s, handlerName, i + 1)

\* for _, route := range g.spec.Routes { ...; if hasMessages { append } }
RECURSIVE RoutesReceivedByFrom(_, _, _)
RoutesReceivedByFrom(s, handlerName, i) ==
    IF i > Len(s.routes) THEN <<>>
    ELSE LET filtered == FilteredMessages(s.routes[i].messages, handlerName, 1)
         IN  IF filtered # <<>>
             THEN <<[source |-> s.routes[i].source, messages |-> filtered]>>
                  \o RoutesReceivedByFrom(s, handlerName, i + 1)
             ELSE RoutesReceivedByFrom(s, handlerName, i + 1)

\* RoutesReceivedBy: the routes with a message that names the handler as a
\* receiver, each with those messages only.
RoutesReceivedBy(s, handlerName) == RoutesReceivedByFrom(s, handlerName, 1)

(***************************************************************************)
(* The generated messenger: constructor and routing methods.               *)
(***************************************************************************)
\* At most this many routing calls are in progress at a time, nested (a
\* handler calling its sendable) or concurrent.
MaxDepth == 2

\* Values a handler may return.
HandlerErrors == { Err("handler", <<>>, n, <<>>) : n \in {"e1", "e2"} }
Responses == {"r1", "r2"}
ZeroValue == "nil"

\* What a Terminal receiver may return: (response, error).
TerminalOutcomes ==
    [resp : Responses \cup {ZeroValue}, err : HandlerErrors \cup {Nil}]
\* What an Intermediate receiver may return: error only.
IntermediateOutcomes ==
    [resp : {ZeroValue}, err : HandlerErrors \cup {Nil}]

\* NewGrpcMessenger(arg1, ..., argN): one parameter per receiving handler,
\* each assigned to the field of the same position.
NewMessenger(handlers, args) ==
    [k \in 1..Len(handlers) |-> [field |-> handlers[k].name, value |-> args[k]]]

\* The receivers of message j of route i.
Receivers(s, i, j) == s.routes[i].messages[j].receivers

\* The role of the receiver at (1-based) position idx of a receivers list.
IsTerminal(receivers, idx) == idx = Len(receivers)

\* Faulty variant: the error of an Intermediate receiver does not end the call.
RouteStepNoAbort(receivers, idx, out) ==
    IF IsTerminal(receivers, idx)
    THEN [done |-> TRUE, result |-> out, idx |-> idx]
    ELSE [done |-> FALSE, result |-> out, idx |-> idx + 1]

\* Faulty variant: the error of an Intermediate receiver is wrapped on the way out.
RouteStepWraps(receivers, idx, out) ==
    IF IsTerminal(receivers, idx)
    THEN [done |-> TRUE, result |-> out, idx |-> idx]
    ELSE IF out.err # Nil
    THEN [done |-> TRUE,
          result |-> [resp |-> ZeroValue, err |-> Wrap("routing", out.err)],
          idx |-> idx]
    ELSE [done |-> FALSE, result |-> out, idx |-> idx + 1]

\* Faulty variant: the Terminal receiver's response is returned with a nil error.
RouteStepDropsTerminalError(receivers, idx, out) ==
    IF IsTerminal(receivers, idx)
    THEN [done |-> TRUE, result |-> [resp |-> out.resp, err |-> Nil],
          idx |-> idx]
    ELSE IF out.err # Nil
    THEN [done |-> TRUE, result |-> [resp |-> ZeroValue, err |-> out.err],
          idx |-> idx]
    ELSE [done |-> FALSE, result |-> out, idx |-> idx + 1]

\* Faulty variant: the error test is inverted (err == nil ends the call).
RouteStepInverted(receivers, idx, out) ==
    IF IsTerminal(receivers, idx)
    THEN [done |-> TRUE, result |-> out, idx |-> idx]
    ELSE IF out.err = Nil
    THEN [done |-> TRUE, result |-> [resp |-> ZeroValue, err |-> out.err],
          idx |-> idx]
    ELSE [done |-> FALSE, result |-> out, idx |-> idx + 1]

\* Faulty variant: the router rejects an empty response of the Terminal
\* receiver with an error of its own.
RouteStepOriginates(receivers, idx, out) ==
    IF IsTerminal(receivers, idx)
    THEN [done |-> TRUE,
          result |-> IF out = [resp |-> ZeroValue, err |-> Nil]
                     THEN [resp |-> ZeroValue,
                           err |-> Err("router", <<>>, "empty response", <<>>)]
                     ELSE out,
          idx |-> idx]
    ELSE IF out.err # Nil
    THEN [done |-> TRUE, result |-> [resp |-> ZeroValue, err |-> out.err],
          idx |-> idx]
    ELSE [done |-> FALSE, result |-> out, idx |-> idx + 1]

\* One step of a routing method, after the receiver at idx returned out:
\*   if err := m.<intermediate>.Handle(ctx, message, m); err != nil {
\*       return nil, err
\*   }
\*   ...
\*   return m.<terminal>.Handle(ctx, message)
RouteStep(receivers, idx, out) ==
    IF IsTerminal(receivers, idx)
    THEN [done |-> TRUE, result |-> out, idx |-> idx]
    ELSE IF out.err # Nil
    THEN [done |-> TRUE, result |-> [resp |-> ZeroValue, err |-> out.err],
          idx |-> idx]
    ELSE [done |-> FALSE, result |-> out, idx |-> idx + 1]

(***************************************************************************)
(* The generated text.  The text a generator renders is modelled by its    *)
(* structure: the declarations it holds, in the order they are emitted.    *)
(***************************************************************************)
\* Concatenation of the sequences f(1), ..., f(n).
RECURSIVE Flatten(_, _)
Flatten(f, n) == IF n = 0 THEN <<>> ELSE Flatten(f, n - 1) \o f[n]

\* The methods a handler gets for one message route that names it: one per
\* position it holds in the receivers list, shaped by the role of that
\* position.
ReceivedMethods(msg, handlerName) ==
    LET at == [k \in 1..Len(msg.receivers) |->
                 IF msg.receivers[k] = handlerName
                 THEN <<[name    |-> <<"Handle">> \o baseName(Chars(msg.message)),
                         message |-> msg.message,
                         returns |-> IF IsTerminal(msg.receivers, k)
                                     THEN msg.response ELSE "error"]>>
                 ELSE <<>>]
    IN  Flatten(at, Len(msg.receivers))

\* type <Handler>Interface: range $.RoutesReceivedBy, range .Messages.
ReceivingInterface(s, handlerName) ==
    LET routes   == RoutesReceivedBy(s, handlerName)
        perRoute == [r \in 1..Len(routes) |->
                       Flatten([j \in 1..Len(routes[r].messages) |->
                                  ReceivedMethods(routes[r].messages[j],
                                                  handlerName)],
                               Len(routes[r].messages))]
    IN  Flatten(perRoute, Len(routes))

\* Send<BaseName>From<Source>
SendMethodName(source, message) ==
    <<"Send">> \o baseName(Chars(message)) \o <<"From">> \o Title(Chars(source))

\* type <Handler>Sendable: range $.RoutesForHandler, range .Messages.
SendableInterface(s, handlerName) ==
    LET routes   == RoutesForHandler(s, handlerName)
        perRoute == [r \in 1..Len(routes) |->
                       [j \in 1..Len(routes[r].messages) |->
                          [name    |-> SendMethodName(handlerName,
                                                      routes[r].messages[j].message),
                           message |-> routes[r].messages[j].message,
                           returns |-> routes[r].messages[j].response]]]
    IN  Flatten(perRoute, Len(routes))

\* The file interface-gen renders: per declared handler its receiving
\* interface (when it receives) and its sendable interface (when it sends).
RenderInterfaces(s) ==
    [tool      |-> "interface-gen",
     package   |-> s.package,
     imports   |-> <<>>,
     receiving |-> [h \in 1..Len(s.handlers) |->
                      ReceivingInterface(s, s.handlers[h].name)],
     sendable  |-> [h \in 1..Len(s.handlers) |->
                      IF HasSendableMessages(s, s.handlers[h].name)
                      THEN SendableInterface(s, s.handlers[h].name)
                      ELSE <<>>],
     fields    |-> <<>>,
     methods   |-> <<>>]

\* func (m *GrpcMessenger) Send<BaseName>From<Source>, as messenger-gen
\* spells it.
RoutingMethodName(source, message) ==
    <<"Send">> \o baseNameMessenger(Chars(message))
               \o <<"From">> \o Title(Chars(source))

\* m.<receiver>.Handle<BaseName>(ctx, message[, m])
HandleMethodName(message) == <<"Handle">> \o baseNameMessenger(Chars(message))

\* The routing methods of the messenger: one per message of every route.
RoutingMethods(s) ==
    Flatten([i \in 1..Len(s.routes) |->
               [j \in 1..Len(s.routes[i].messages) |->
                  [name      |-> RoutingMethodName(s.routes[i].source,
                                                   s.routes[i].messages[j].message),
                   source    |-> s.routes[i].source,
                   handles   |-> HandleMethodName(s.routes[i].messages[j].message),
                   message   |-> s.routes[i].messages[j].message,
                   receivers |-> s.routes[i].messages[j].receivers,
                   returns   |-> s.routes[i].messages[j].response]]],
            Len(s.routes))

\* The file messenger-gen renders; packages is the list of handler packages
\* as the template visits them.
RenderMessenger(s, packages) ==
    [tool      |-> "messenger-gen",
     package   |-> s.package,
     imports   |-> packages,
     receiving |-> <<>>,
     sendable  |-> <<>>,
     fields    |-> HandlersReceivingMessages(s),
     methods   |-> RoutingMethods(s)]

(***************************************************************************)
(* Generate and WriteToFile.                                               *)
(***************************************************************************)
\* GetHandlerPackages: the package alias of every handler type that has one
\* ("configapi.ConfigurationApi" -> "configapi"); a Go map, so a set.
HandlerPackage(type) ==
    LET parts == Split(Chars(type), ".")
    IN  IF Len(parts) > 1 THEN { Split(parts[1], "[")[1] } ELSE {}

GetHandlerPackages(s) ==
    UNION { HandlerPackage(s.handlers[h].type) : h \in 1..Len(s.handlers) }

\* The byte order of the letters in use.
CharCode(c) ==
    CASE c = "A" -> 65 [] c = "B" -> 66 [] c = "a" -> 97
      [] c = "g" -> 103 [] c = "k" -> 107 [] c = "p" -> 112 [] c = "q" -> 113
      [] OTHER -> 0

RECURSIVE StrLess(_, _)
StrLess(a, b) ==
    IF b = <<>> THEN FALSE
    ELSE IF a = <<>> THEN TRUE
    ELSE IF CharCode(Head(a)) # CharCode(Head(b))
         THEN CharCode(Head(a)) < CharCode(Head(b))
    ELSE StrLess(Tail(a), Tail(b))

RECURSIVE SortedKeys(_)
SortedKeys(keys) ==
    IF keys = {} THEN <<>>
    ELSE LET least == CHOOSE k \in keys : \A o \in keys \ {k} : StrLess(k, o)
         IN  <<least>> \o SortedKeys(keys \ {least})

\* Every order of the elements of a set.
RECURSIVE Orders(_)
Orders(keys) ==
    IF keys = {} THEN { <<>> }
    ELSE UNION { { <<k>> \o rest : rest \in Orders(keys \ {k}) } : k \in keys }

\* Faulty variant: the keys of a map are visited in the order the map yields them.
MapRangeOrdersUnsorted(keys) == Orders(keys)

\* {{range}} over a map in text/template: the keys are visited in sorted order.
MapRangeOrders(keys) == { SortedKeys(keys) }

\* The number of occurrences of c in s.
RECURSIVE Count(_, _)
Count(s, c) ==
    IF s = <<>> THEN 0
    ELSE (IF Head(s) = c THEN 1 ELSE 0) + Count(Tail(s), c)

\* The characters of a response token that matter to the Go parser.
ResponseChars(r) ==
    CASE r = "error" -> <<"e">>
      [] r = "(*p.R, error)" -> <<"(", "*", "p", ".", "R", ",", "e", ")">>
      [] r = "(*p.R, error" -> <<"(", "*", "p", ".", "R", ",", "e">>
      [] r = "(*pb.R, error)" -> <<"(", "*", "p", "b", ".", "R", ",", "e", ")">>

\* The result types of all methods in a text.
ResultTypes(text) ==
    { text.methods[k].returns : k \in 1..Len(text.methods) }
    \cup UNION { { text.receiving[h][k].returns :
                     k \in 1..Len(text.receiving[h]) } :
                 h \in 1..Len(text.receiving) }
    \cup UNION { { text.sendable[h][k].returns :
                     k \in 1..Len(text.sendable[h]) } :
                 h \in 1..Len(text.sendable) }

\* format.Source accepts a text when it parses as Go: the response tokens,
\* which the templates copy into the text as they are, must be well formed.
Parsable(text) ==
    \A r \in ResultTypes(text) :
      Count(ResponseChars(r), "(") = Count(ResponseChars(r), ")")

NoText ==
    [tool |-> "", package |-> "", imports |-> <<>>, receiving |-> <<>>,
     sendable |-> <<>>, fields |-> <<>>, methods |-> <<>>]

\* A byte slice: the text it holds and whether format.Source has laid it out.
Bytes(text, formatted) == [text |-> text, formatted |-> formatted]

NoBytes == Bytes(NoText, FALSE)

\* buf after tmpl.Execute(&buf, g)
Render(kind, s, packages) ==
    IF kind = "interface-gen" THEN RenderInterfaces(s)
    ELSE RenderMessenger(s, packages)

\* Generate: parse the template, execute it, format the result.  When
\* formatting fails the unformatted code is returned with the error.
GenerateResult(t, s, packages) ==
    IF t.template = "syntax"
    THEN [code |-> NoBytes,
          err  |-> Wrap("failed to parse template", Err("template", <<>>, "", <<>>))]
    ELSE IF t.template = "exec"
    THEN [code |-> NoBytes,
          err  |-> Wrap("failed to execute template", Err("exec", <<>>, "", <<>>))]
    ELSE LET buf == Render(t.kind, s, packages)
         IN  IF ~Parsable(buf)
             THEN [code |-> Bytes(buf, FALSE),
                   err  |-> Wrap("failed to format generated code",
                                 Err("syntax", <<>>, "", <<>>))]
             ELSE [code |-> Bytes(buf, TRUE), err |-> Nil]

\* The stages of Generate that succeeded.
GenerateSteps(t, s, packages) ==
    IF t.template = "syntax" THEN <<>>
    ELSE IF t.template = "exec" THEN <<"template">>
    ELSE IF ~Parsable(Render(t.kind, s, packages)) THEN <<"template", "render">>
    ELSE <<"template", "render", "format">>

\* The file named by -output: absent or present, with the chunks it holds.
File(state, content) == [state |-> state, content |-> content]

\* Faulty variant: the file is opened for appending.
WriteFileAppend(old, data) == File("written", old.content \o <<data>>)

\* os.WriteFile(filepath, code, 0644): the file is replaced by the data.
WriteFile(old, data) == File("written", <<data>>)

\* os.WriteFile failing after it has truncated the file.
TruncatedFile == File("written", <<>>)

\* Generate has not returned yet.
NoGen == [code |-> NoBytes, err |-> Nil]

\* LoadSpec: read the file, parse it, validate the document.
LoadSpecFile(in, s) ==
    IF in = "unreadable"
    THEN Wrap("failed to read spec file", Err("io", <<>>, "", <<>>))
    ELSE IF in = "malformed"
    THEN Wrap("failed to parse YAML", Err("yaml", <<>>, "", <<>>))
    ELSE LoadSpecError(s)

\* The stages of LoadSpec that succeeded.
LoadSteps(in, s) ==
    IF in = "unreadable" THEN <<>>
    ELSE IF in = "malformed" THEN <<"read">>
    ELSE IF LoadSpecError(s) # Nil THEN <<"read", "parse">>
    ELSE <<"read", "parse", "validate">>

(***************************************************************************)
(* State: one generator run, then the generated messenger at run time.     *)
(***************************************************************************)
VARIABLES
    spec,       \* the parsed routing document (InterfaceSpec / MessengerSpec)
    pc,         \* start, failed, loaded, generated, serving
    err,        \* the error LoadSpec returned (Nil when none)
    fields,     \* the messenger's struct fields, in order (handler declarations)
    messenger,  \* the constructed messenger: field name and assigned instance
    stack,      \* the routing calls in progress, innermost last
    last,       \* the routing call that returned in the latest step (NoCall
                \* when none did), with its result
    tool,       \* the generator that runs and the state of its template
    args,       \* the -spec and -output flags of the command line
    input,      \* what the file named by -spec holds
    disk,       \* the file named by -output
    exit,       \* the exit code of the process ("running" before it exits)
    console,    \* what the process printed, in order
    steps,      \* the stages of the run that succeeded, in order
    gen,        \* what Generate returned: (code, err)
    runs,       \* the finished runs: exit code and the output file after it
    accounts,   \* the rows of the accounts table, oldest first
    calls,      \* the two API calls served last, the latest last
    pgPool,     \* the package variable pgPool (NoPool when nil)
    pgContainer,\* the package variable pgContainer and its sync.Once
    pools,      \* the pools db.NewPool has created so far
    getters,    \* the goroutines calling GetPostgresPool
    servers,    \* the start goroutine of each registered server
    base,       \* the ServerBase: context, counter, channels
    harness,    \* the goroutines around the ServerBase: Launch's, createServer
    build,      \* one call of TestContextBuilder.Build
    database,   \* schema_migrations and the up SQL committed, in order
    migration   \* one run of RunDbmateMigrations

rtVars == <<fields, messenger, stack, last>>
genVars == <<tool, args, input, disk, exit, console, steps, gen, runs>>
appVars == <<accounts, calls>>
\* The variables of the parts of the repository other than the generators
\* and the generated messenger.
poolVars == <<pgPool, pgContainer, pools, getters>>
srvVars == <<servers, base, harness>>
migVars == <<database, migration>>
extVars == <<appVars, poolVars, srvVars, build, migVars>>
vars == <<spec, pc, err, fields, messenger, stack, last,
          tool, args, input, disk, exit, console, steps, gen, runs,
          extVars>>

\* Those parts before anything has run.
AppIdle == accounts = <<>> /\ calls = <<>>
PoolIdle == pgPool = 0 /\ pgContainer = "none" /\ pools = 0 /\ getters = <<>>
SrvIdle == servers = <<>> /\ base = <<>> /\ harness = <<>>
BuildIdle == build = <<>>
MigIdle == database = <<>> /\ migration = <<>>
ExtIdle == AppIdle /\ PoolIdle /\ SrvIdle /\ BuildIdle /\ MigIdle

coreVars == <<spec, pc, err, rtVars, genVars>>

\* The goroutines that serve requests through the one messenger.
Threads == {1, 2}

\* The (context, message) pairs a caller may pass to a routing method.
CallArgs == { [ctx |-> "ctx1", message |-> "m1"],
              [ctx |-> "ctx2", message |-> "m2"] }

NoCall == [returned |-> FALSE, route |-> 0, msg |-> 0, idx |-> 0,
           invoked |-> <<>>, outs |-> <<>>, skipped |-> {},
           result |-> [resp |-> ZeroValue, err |-> Nil]]

\* A routing call that has just been entered with the arguments (c, m).
\* observed: the call is one whose handlers are watched for their use of
\* `next`; of such a call,
\* called: the receiver now running has called a method of its `next`;
\* skipped: the positions of the Intermediate receivers of the call that
\* returned nil without having called one.
NewFrame(i, j, c, m) ==
    [route |-> i, msg |-> j, idx |-> 1, running |-> FALSE,
     ctx |-> c, message |-> m,
     invoked |-> <<>>, passed |-> <<>>, outs |-> <<>>,
     observed |-> FALSE, called |-> FALSE, skipped |-> {}]

ObservedFrame(i, j, c, m) == [NewFrame(i, j, c, m) EXCEPT !.observed = TRUE]

\* The stack of thread t once the receiver running in its innermost call has
\* entered, through `next`, the routing call of frame f.
Entered(t, f) ==
    Append([stack[t] EXCEPT
              ![Len(stack[t])].called = stack[t][Len(stack[t])].observed], f)

\* The innermost routing call of thread t.
Top(t) == stack[t][Len(stack[t])]

\* The handler a frame is currently executing.
RunningHandler(f) == Receivers(spec, f.route, f.msg)[f.idx]

\* The routing calls in progress, over all threads.
InProgress == Len(stack[1]) + Len(stack[2])

\* Faulty variant: the position is kept in a field of the messenger, which
\* all calls share: the position of the call entered first.
PositionShared(stk, t) ==
    LET first == CHOOSE u \in Threads :
                   /\ stk[u] # <<>>
                   /\ \A v \in Threads : stk[v] # <<>> => u <= v
    IN  stk[first][1].idx

\* The position a routing method is at: a local of the call.
Position(stk, t) == stk[t][Len(stk[t])].idx

\* Faulty variant: the receiver is handed a fresh background context.
PassedBackground(f) == [ctx |-> "background", message |-> f.message]

\* The arguments a routing method passes to a receiver:
\*   m.<receiver>.Handle(ctx, message, m)
Passed(f) == [ctx |-> f.ctx, message |-> f.message]

\* The instances createMessenger passes to the constructor, in order.
Instances(handlers) ==
    [k \in 1..Len(handlers) |-> [type |-> handlers[k].type, arg |-> k]]

Init ==
    /\ \E n \in 0..MaxSize, h \in 0..MaxSize :
         /\ n + h <= MaxSize
         /\ \E sh \in RouteShapesOfSize(n) :
            \E p \in Packages, hs \in [1..h -> HandlerDecls],
               src \in [1..Len(sh) -> SourceNames],
               mts \in [1..MessagesBefore(sh, Len(sh) + 1) -> MessageTypes],
               rcv \in [1..ReceiversBefore(sh, Len(sh) + 1) -> ReceiverNames] :
                 spec = BuildDocument(p, hs, sh, src, mts, rcv)
    /\ pc = "start"
    /\ err = Nil
    /\ fields = <<>>
    /\ messenger = <<>>
    /\ stack = [t \in Threads |-> <<>>]
    /\ last = NoCall
    /\ tool = [kind |-> "messenger-gen", template |-> "ok"]
    /\ args = [spec |-> "routing.yaml", output |-> "generated_messenger.go"]
    /\ input = "document"
    /\ disk = File("absent", <<>>)
    /\ exit = -1
    /\ console = <<>>
    /\ steps = <<>>
    /\ gen = NoGen
    /\ runs = <<>>
    /\ ExtIdle

\* main.go: spec, err := LoadSpec(specFile); on error print and exit 1.
LoadSpec ==
    /\ pc = "start"
    /\ err' = LoadSpecError(spec)
    /\ pc' = IF err' = Nil THEN "loaded" ELSE "failed"
    /\ UNCHANGED <<spec, fields, messenger, stack, last>>
    /\ UNCHANGED genVars
    /\ UNCHANGED extVars

\* main.go: generator := NewGenerator(spec); generator.WriteToFile(outputFile).
\* The struct fields of the messenger are range .HandlersReceivingMessages.
Generate ==
    /\ pc = "loaded"
    /\ fields' = HandlersReceivingMessages(spec)
    /\ pc' = "generated"
    /\ UNCHANGED <<spec, err, messenger, stack, last>>
    /\ UNCHANGED genVars
    /\ UNCHANGED extVars

\* createMessenger: messenger.NewGrpcMessenger(accountRepo, middlewareOne,
\* middlewareTwo): the caller passes the k-th instance for the k-th parameter.
Construct ==
    /\ pc = "generated"
    /\ messenger' = NewMessenger(fields, Instances(fields))
    /\ pc' = "serving"
    /\ UNCHANGED <<spec, err, fields, stack, last>>
    /\ UNCHANGED genVars
    /\ UNCHANGED extVars

\* A source handler outside any routing call (an API handler serving a
\* request in goroutine t) calls the routing method of message j of route i
\* with the context c and the message m.
Send(t, i, j, c, m) ==
    /\ pc = "serving"
    /\ stack[t] = <<>>
    /\ InProgress < MaxDepth
    /\ stack' = [stack EXCEPT ![t] = <<NewFrame(i, j, c, m)>>]
    /\ last' = NoCall
    /\ UNCHANGED <<spec, pc, err, fields, messenger>>
    /\ UNCHANGED genVars
    /\ UNCHANGED extVars

\* Faulty variant: next is the messenger itself, with every routing method.
NestedSendAnyRoute(t, i, j, c, m) ==
    /\ pc = "serving"
    /\ stack[t] # <<>>
    /\ InProgress < MaxDepth
    /\ Top(t).running
    /\ stack' = [stack EXCEPT ![t] = Entered(t, NewFrame(i, j, c, m))]
    /\ last' = NoCall
    /\ UNCHANGED <<spec, pc, err, fields, messenger>>
    /\ UNCHANGED genVars
    /\ UNCHANGED extVars

\* The handler running in the innermost call of thread t calls, through its
\* `next` sendable, the routing method of a message it originates:
\*   next.SendAccountDeletionRequestFromMiddlewareTwo(ctx, req)
NestedSend(t, i, j, c, m) ==
    /\ pc = "serving"
    /\ stack[t] # <<>>
    /\ InProgress < MaxDepth
    /\ Top(t).running
    /\ spec.routes[i].source = RunningHandler(Top(t))
    /\ stack' = [stack EXCEPT ![t] = Entered(t, NewFrame(i, j, c, m))]
    /\ last' = NoCall
    /\ UNCHANGED <<spec, pc, err, fields, messenger>>
    /\ UNCHANGED genVars
    /\ UNCHANGED extVars

\* The routing method invokes the receiver at its current position.
Invoke(t) ==
    /\ pc = "serving"
    /\ stack[t] # <<>>
    /\ ~Top(t).running
    /\ stack' = [stack EXCEPT ![t][Len(stack[t])] =
                   [@ EXCEPT !.running = TRUE,
                             !.called = FALSE,
                             !.invoked = Append(@, Position(stack, t)),
                             !.passed = Append(@, Passed(Top(t)))]]
    /\ last' = NoCall
    /\ UNCHANGED <<spec, pc, err, fields, messenger>>
    /\ UNCHANGED genVars
    /\ UNCHANGED extVars

\* Faulty variant: the chain goes on only through `next`; an Intermediate
\* receiver that returns nil without having called it ends the call.
HandlerReturnNeedsForward(t, out) ==
    /\ pc = "serving"
    /\ stack[t] # <<>>
    /\ Top(t).running
    /\ LET rs   == Receivers(spec, Top(t).route, Top(t).msg)
           step == RouteStep(rs, Top(t).idx, out)
           outs == Append(Top(t).outs, out)
       IN  IF step.done \/ (Top(t).observed /\ ~Top(t).called)
           THEN /\ stack' = [stack EXCEPT ![t] = SubSeq(@, 1, Len(@) - 1)]
                /\ last' = [returned |-> TRUE, route |-> Top(t).route,
                            msg |-> Top(t).msg, idx |-> Top(t).idx,
                            invoked |-> Top(t).invoked, outs |-> outs,
                            skipped |-> IF step.done THEN Top(t).skipped
                                        ELSE Top(t).skipped \cup {Top(t).idx},
                            result |-> IF step.done THEN step.result
                                       ELSE [resp |-> ZeroValue, err |-> Nil]]
           ELSE /\ stack' = [stack EXCEPT ![t][Len(stack[t])] =
                               [@ EXCEPT !.running = FALSE,
                                         !.idx = step.idx,
                                         !.outs = outs]]
                /\ last' = NoCall
    /\ UNCHANGED <<spec, pc, err, fields, messenger>>
    /\ UNCHANGED genVars
    /\ UNCHANGED extVars

\* The invoked receiver returns out; the routing method either returns to
\* its caller or goes on to the next receiver.
HandlerReturn(t, out) ==
    /\ pc = "serving"
    /\ stack[t] # <<>>
    /\ Top(t).running
    /\ LET rs   == Receivers(spec, Top(t).route, Top(t).msg)
           step == RouteStep(rs, Top(t).idx, out)
           outs == Append(Top(t).outs, out)
       IN  IF step.done
           THEN /\ stack' = [stack EXCEPT ![t] = SubSeq(@, 1, Len(@) - 1)]
                /\ last' = [returned |-> TRUE, route |-> Top(t).route,
                            msg |-> Top(t).msg, idx |-> Top(t).idx,
                            invoked |-> Top(t).invoked, outs |-> outs,
                            skipped |-> Top(t).skipped,
                            result |-> step.result]
           ELSE /\ stack' = [stack EXCEPT ![t][Len(stack[t])] =
                               [@ EXCEPT !.running = FALSE,
                                         !.idx = step.idx,
                                         !.outs = outs,
                                         !.skipped =
                                             IF Top(t).observed /\ ~Top(t).called
                                             THEN @ \cup {Top(t).idx}
                                             ELSE @]]
                /\ last' = NoCall
    /\ UNCHANGED <<spec, pc, err, fields, messenger>>
    /\ UNCHANGED genVars
    /\ UNCHANGED extVars

Routing ==
    \/ \E t \in Threads, a \in CallArgs :
         \E i \in 1..Len(spec.routes) :
           \E j \in 1..Len(spec.routes[i].messages) :
             Send(t, i, j, a.ctx, a.message)
    \/ \E t \in Threads, a \in CallArgs :
         \E i \in 1..Len(spec.routes) :
           \E j \in 1..Len(spec.routes[i].messages) :
             NestedSend(t, i, j, a.ctx, a.message)
    \/ \E t \in Threads : Invoke(t)
    \/ \E t \in Threads :
         /\ stack[t] # <<>>
         /\ \E out \in IF IsTerminal(Receivers(spec, Top(t).route, Top(t).msg),
                                    Top(t).idx)
                       THEN TerminalOutcomes ELSE IntermediateOutcomes :
              HandlerReturn(t, out)

Next == LoadSpec \/ Generate \/ Construct \/ Routing

Spec == Init /\ [][Next]_vars

TypeOK == pc \in {"start", "failed", "loaded", "generated", "serving"}

(***************************************************************************)
(* One goroutine and a messenger of handlers A and B, with the routing     *)
(* calls it enters from outside observed.  A sends one message to a chain  *)
(* of receivers; A, the source of the route, can call the routing method   *)
(* again through its `next`, B has nothing to call.                        *)
(***************************************************************************)
\* The receivers of the chain, at most.
MaxChain == 3

ChainDocuments ==
    { BuildDocument("interfaces",
                    <<[name |-> "A", type |-> "pkg.A"],
                      [name |-> "B", type |-> "pkg.B"]>>,
                    << <<Len(rcv)>> >>, <<"A">>, <<"*pb.MProto">>, rcv) :
        rcv \in UNION { [1..k -> {"A", "B"}] : k \in 1..MaxChain } }

\* Send, of a call that is observed.
SendObserved(t, i, j, c, m) ==
    /\ pc = "serving"
    /\ stack[t] = <<>>
    /\ InProgress < MaxDepth
    /\ stack' = [stack EXCEPT ![t] = <<ObservedFrame(i, j, c, m)>>]
    /\ last' = NoCall
    /\ UNCHANGED <<spec, pc, err, fields, messenger>>
    /\ UNCHANGED genVars
    /\ UNCHANGED extVars

\* The messenger generated and constructed for a valid document.
ChainInit ==
    /\ spec \in ChainDocuments
    /\ LoadSpecError(spec) = Nil
    /\ pc = "serving"
    /\ err = Nil
    /\ fields = HandlersReceivingMessages(spec)
    /\ messenger = NewMessenger(fields, Instances(fields))
    /\ stack = [t \in Threads |-> <<>>]
    /\ last = NoCall
    /\ tool = [kind |-> "messenger-gen", template |-> "ok"]
    /\ args = [spec |-> "routing.yaml", output |-> "generated_messenger.go"]
    /\ input = "document"
    /\ disk = File("absent", <<>>)
    /\ exit = -1
    /\ console = <<>>
    /\ steps = <<>>
    /\ gen = NoGen
    /\ runs = <<>>
    /\ ExtIdle

ChainNext ==
    \/ \E a \in CallArgs : SendObserved(1, 1, 1, a.ctx, a.message)
    \/ \E a \in CallArgs : NestedSend(1, 1, 1, a.ctx, a.message)
    \/ Invoke(1)
    \/ /\ stack[1] # <<>>
       /\ \E out \in IF IsTerminal(Receivers(spec, Top(1).route, Top(1).msg),
                                  Top(1).idx)
                     THEN TerminalOutcomes ELSE IntermediateOutcomes :
            HandlerReturn(1, out)

ChainSpec == ChainInit /\ [][ChainNext]_vars

(***************************************************************************)
(* One generator command: main, run up to MaxRuns times on the same        *)
(* document and output path.                                               *)
(***************************************************************************)
\* Routes, message routes and receiver names of a document, in total.
MaxGenSize == 6
\* Runs of the command on the same document.
MaxRuns == 2

HandlerA == [name |-> "A", type |-> "p.A"]
HandlerB == [name |-> "B", type |-> "q.B"]
GenHandlerLists == { <<HandlerA>>, <<HandlerA, HandlerB>> }
GenNames == {"A", "B"}
GenMessageTypes == {"*p.MProto", "*p.M", "*p.NProto"}
GenResponseTypes == {"(*p.R, error)", "(*p.R, error"}
GenTools == {"interface-gen", "messenger-gen"}

\* Every route has a message and every message a receiver.
WellFormedShape(sh) ==
    /\ sh # <<>>
    /\ \A i \in 1..Len(sh) :
         /\ sh[i] # <<>>
         /\ \A j \in 1..Len(sh[i]) : sh[i][j] >= 1

\* The document with r as the response of every message route.
WithResponse(d, r) ==
    [d EXCEPT !.routes =
       [i \in 1..Len(d.routes) |->
          [d.routes[i] EXCEPT !.messages =
             [j \in 1..Len(d.routes[i].messages) |->
                [d.routes[i].messages[j] EXCEPT !.response = r]]]]]

\* handlers A, B; A sends *p.MProto to B.
SampleDocument ==
    WithResponse(BuildDocument("interfaces", <<HandlerA, HandlerB>>, << <<1>> >>,
                               <<"A">>, <<"*p.MProto">>, <<"B">>),
                 "(*p.R, error)")

\* var spec InterfaceSpec
NoDocument == [package |-> "", handlers |-> <<>>, routes |-> <<>>]

BothFlags == [spec |-> "routing.yaml", output |-> "generated.go"]

GenInit ==
    /\ \/ /\ \E n \in 1..MaxGenSize :
               \E sh \in { x \in RouteShapesOfSize(n) : WellFormedShape(x) } :
               \E hs \in GenHandlerLists, r \in GenResponseTypes,
                  src \in [1..Len(sh) -> GenNames],
                  mts \in [1..MessagesBefore(sh, Len(sh) + 1) -> GenMessageTypes],
                  rcv \in [1..ReceiversBefore(sh, Len(sh) + 1) -> GenNames] :
                    spec = WithResponse(
                             BuildDocument("interfaces", hs, sh, src, mts, rcv), r)
          /\ args = BothFlags
          /\ input = "document"
          /\ \E k \in GenTools : tool = [kind |-> k, template |-> "ok"]
       \/ /\ spec = SampleDocument
          /\ args \in { [spec |-> "", output |-> "generated.go"],
                        [spec |-> "routing.yaml", output |-> ""],
                        [spec |-> "", output |-> ""] }
          /\ input = "document"
          /\ \E k \in GenTools : tool = [kind |-> k, template |-> "ok"]
       \/ /\ spec = NoDocument
          /\ args = BothFlags
          /\ input \in {"unreadable", "malformed"}
          /\ \E k \in GenTools : tool = [kind |-> k, template |-> "ok"]
       \/ /\ spec = SampleDocument
          /\ args = BothFlags
          /\ input = "document"
          /\ \E k \in GenTools, f \in {"syntax", "exec"} :
               tool = [kind |-> k, template |-> f]
    /\ disk \in { File("absent", <<>>), File("stale", <<NoBytes>>) }
    /\ pc = "main"
    /\ err = Nil
    /\ exit = -1
    /\ console = <<>>
    /\ steps = <<>>
    /\ gen = NoGen
    /\ runs = <<>>
    /\ ExtIdle
    /\ fields = <<>>
    /\ messenger = <<>>
    /\ stack = [t \in Threads |-> <<>>]
    /\ last = NoCall

\* One line on stderr or stdout: the message, the error printed with it and
\* the generated code printed with it (main prints none).
Diagnostic(stream, msg, e) ==
    [stream |-> stream, msg |-> msg, err |-> e, text |-> NoBytes]

\* Faulty variant: main returns normally whatever happened.
mainExitAlwaysZero(e) == 0

\* main: os.Exit(1) on an error, a normal return otherwise.
mainExit(e) == IF e # Nil THEN 1 ELSE 0

\* The process ends with error e (Nil: none), the output file being d.
Finish(e, d, line) ==
    /\ exit' = mainExit(e)
    /\ disk' = d
    /\ console' = Append(console, line)
    /\ pc' = "exited"
    /\ runs' = Append(runs, [exit |-> exit', disk |-> d])

UsageError == Err("usage", <<>>, "", <<>>)

\* main: flag.Parse(); if specFile == "" || outputFile == "" { usage; exit 1 }
mainFlags ==
    /\ pc = "main"
    /\ IF args.spec = "" \/ args.output = ""
       THEN /\ Finish(UsageError, disk, Diagnostic("stderr", "Usage", Nil))
            /\ err' = UsageError
       ELSE /\ pc' = "load"
            /\ UNCHANGED <<err, disk, exit, console, runs>>
    /\ UNCHANGED <<spec, tool, args, input, steps, gen>>
    /\ UNCHANGED rtVars
    /\ UNCHANGED extVars

\* main: spec, err := LoadSpec(specFile); on an error print it and exit 1.
mainLoadSpec ==
    /\ pc = "load"
    /\ err' = LoadSpecFile(input, spec)
    /\ steps' = steps \o LoadSteps(input, spec)
    /\ IF err' # Nil
       THEN Finish(err', disk, Diagnostic("stderr", "Error loading spec", err'))
       ELSE /\ pc' = "generate"
            /\ UNCHANGED <<disk, exit, console, runs>>
    /\ UNCHANGED <<spec, tool, args, input, gen>>
    /\ UNCHANGED rtVars
    /\ UNCHANGED extVars

\* WriteToFile: code, err := g.Generate()
WriteToFileGenerate ==
    /\ pc = "generate"
    /\ \E packages \in MapRangeOrders(GetHandlerPackages(spec)) :
         /\ gen' = GenerateResult(tool, spec, packages)
         /\ steps' = steps \o GenerateSteps(tool, spec, packages)
    /\ pc' = "write"
    /\ UNCHANGED <<spec, err, tool, args, input, disk, exit, console, runs>>
    /\ UNCHANGED rtVars
    /\ UNCHANGED extVars

WriteError == Wrap("failed to write output file", Err("io", <<>>, "", <<>>))

\* Faulty variant: the code Generate returned is written whether or not
\* Generate returned an error.
WriteToFileIgnoresError ==
    /\ pc = "write"
    /\ err' = gen.err
    /\ steps' = Append(steps, "write")
    /\ Finish(gen.err, WriteFile(disk, gen.code),
              IF gen.err # Nil
              THEN Diagnostic("stderr", "Error generating code", gen.err)
              ELSE Diagnostic("stdout", "Successfully generated", Nil))
    /\ UNCHANGED <<spec, tool, args, input, gen>>
    /\ UNCHANGED rtVars
    /\ UNCHANGED extVars

\* WriteToFile: if err != nil { return err }; os.WriteFile(filepath, code,
\* 0644); then main: on an error print it and exit 1, else print the success
\* line.  The write succeeds, fails before touching the file, or fails after
\* truncating it.
WriteToFileWrite ==
    /\ pc = "write"
    /\ IF gen.err # Nil
       THEN /\ err' = gen.err
            /\ UNCHANGED steps
            /\ Finish(gen.err, disk,
                      Diagnostic("stderr", "Error generating code", gen.err))
       ELSE \/ /\ err' = Nil
               /\ steps' = Append(steps, "write")
               /\ Finish(Nil, WriteFile(disk, gen.code),
                         Diagnostic("stdout", "Successfully generated", Nil))
            \/ /\ err' = WriteError
               /\ UNCHANGED steps
               /\ \E d \in {disk, TruncatedFile} :
                    Finish(WriteError, d,
                           Diagnostic("stderr", "Error generating code",
                                      WriteError))
    /\ UNCHANGED <<spec, tool, args, input, gen>>
    /\ UNCHANGED rtVars
    /\ UNCHANGED extVars

\* The command is run again on the same document and output path.
Rerun ==
    /\ pc = "exited"
    /\ Len(runs) < MaxRuns
    /\ pc' = "main"
    /\ err' = Nil
    /\ exit' = -1
    /\ console' = <<>>
    /\ steps' = <<>>
    /\ gen' = NoGen
    /\ UNCHANGED <<spec, tool, args, input, disk, runs>>
    /\ UNCHANGED rtVars
    /\ UNCHANGED extVars

GenNext ==
    mainFlags \/ mainLoadSpec \/ WriteToFileGenerate \/ WriteToFileWrite \/ Rerun

GenSpec == GenInit /\ [][GenNext]_vars

(***************************************************************************)
(* The account service: ConfigurationApi, the generated messenger,         *)
(* MiddleOne, MiddleTwo and the account repository over the accounts       *)
(* table.  A string is the sequence of its bytes.                          *)
(***************************************************************************)
\* "abc", "YWJj" (four letters of the base64 alphabet) and "n-1".
NameAbc == <<97, 98, 99>>
NameYWJj == <<89, 87, 74, 106>>
NameN1 == <<110, 45, 49>>
AccountNames == { <<>>, NameAbc, NameYWJj, NameN1 }

\* The 6-bit value of a byte of the standard base64 alphabet, -1 for a byte
\* outside it.
Base64Index(b) ==
    IF b >= 65 /\ b <= 90 THEN b - 65
    ELSE IF b >= 97 /\ b <= 122 THEN b - 71
    ELSE IF b >= 48 /\ b <= 57 THEN b + 4
    ELSE IF b = 43 THEN 62
    ELSE IF b = 47 THEN 63
    ELSE -1

\* Four letters of the alphabet decode to three bytes.
RECURSIVE DecodeQuanta(_)
DecodeQuanta(s) ==
    IF s = <<>> THEN <<>>
    ELSE LET n == Base64Index(s[1]) * 262144 + Base64Index(s[2]) * 4096
                    + Base64Index(s[3]) * 64 + Base64Index(s[4])
         IN  <<n \div 65536, (n \div 256) % 256, n % 256>>
               \o DecodeQuanta(SubSeq(s, 5, Len(s)))

\* base64.StdEncoding.DecodeString, for strings without '=' padding (none
\* of the names in use has any): whole quanta of letters of the alphabet
\* decode, anything else is corrupt input.
DecodeString(s) ==
    IF Len(s) % 4 # 0 \/ \E k \in 1..Len(s) : Base64Index(s[k]) < 0
    THEN [decoded |-> <<>>,
          err |-> Err("base64", <<>>, "illegal base64 data", <<>>)]
    ELSE [decoded |-> DecodeQuanta(s), err |-> Nil]

\* A nil response pointer.
NilResponse == [nil |-> TRUE]

\* What the caller's session looks like to the auth middleware: whether the
\* call comes from a Go test, carries a cookie, and what Kratos says.
TestRun == [test |-> TRUE, cookie |-> FALSE, valid |-> FALSE,
            active |-> FALSE, id |-> ""]
NoCookie == [test |-> FALSE, cookie |-> FALSE, valid |-> FALSE,
             active |-> FALSE, id |-> ""]
Inactive == [test |-> FALSE, cookie |-> TRUE, valid |-> TRUE,
             active |-> FALSE, id |-> "alice"]
Alice == [test |-> FALSE, cookie |-> TRUE, valid |-> TRUE,
          active |-> TRUE, id |-> "alice"]
Sessions == { TestRun, NoCookie, Inactive, Alice }

\* The context of an incoming request.
Incoming(session) == [session |-> session, user_id |-> ""]

\* auth.WithUserID / auth.UserIDFromContext
WithUserID(ctx, userID) == [ctx EXCEPT !.user_id = userID]
UserIDFromContext(ctx) == ctx.user_id

\* status.Error(code, msg) and status.Errorf(code, "msg: %v", e)
StatusError(code, msg, e) ==
    [kind |-> "status", at |-> <<>>, name |-> msg, available |-> <<>>,
     code |-> code, detail |-> e]

Unauthenticated(msg) == StatusError("Unauthenticated", msg, Nil)

\* AuthMiddleware.ExtractUserID
ExtractUserID(ctx) ==
    LET s == ctx.session
    IN  IF s.test THEN [userID |-> "test-user", err |-> Nil]
        ELSE IF ~s.cookie
        THEN [userID |-> "", err |-> Unauthenticated("no session cookie found")]
        ELSE IF ~s.valid
        THEN [userID |-> "", err |-> Unauthenticated("invalid session")]
        ELSE IF ~s.active
        THEN [userID |-> "", err |-> Unauthenticated("session is not active")]
        ELSE IF s.id = ""
        THEN [userID |-> "", err |-> Unauthenticated("no user ID in session")]
        ELSE [userID |-> s.id, err |-> Nil]

\* The outcome of a handler or routing method: what it returned, the table
\* after it, and the handlers invoked on the way, in order.
Outcome(resp, e, db, hops) ==
    [resp |-> resp, err |-> e, db |-> db, hops |-> hops]

Returned(r) == [resp |-> r.resp, err |-> r.err]

NotForwarded == [resp |-> NilResponse, err |-> Nil]

\* One invocation of a handler by the messenger: the arguments it was
\* given, what its call through `next` returned (NotForwarded when it made
\* none) and what it returned itself.
Hop(handler, ctx, message, forwarded, returned) ==
    [handler |-> handler, ctx |-> ctx, message |-> message,
     forwarded |-> forwarded, returned |-> returned]

\* The error of the database driver when the connection is down.
ConnectionError == Err("pgx", <<>>, "connection refused", <<>>)

RECURSIVE Without(_, _)
Without(db, id) ==
    IF db = <<>> THEN <<>>
    ELSE IF Head(db) = id THEN Without(Tail(db), id)
    ELSE <<Head(db)>> \o Without(Tail(db), id)

Rows(db) == { db[k] : k \in 1..Len(db) }

RECURSIVE Reverse(_)
Reverse(s) == IF s = <<>> THEN <<>> ELSE Append(Reverse(Tail(s)), Head(s))

\* AccountDbRepository.CreateAccount: INSERT INTO accounts (id, type) ...
\* RETURNING id, type; the id is the primary key.
RepositoryCreateAccount(req, db, dbOk) ==
    IF req.name = <<>>
    THEN Outcome(NilResponse, Err("repository", <<>>, "name is required", <<>>),
                 db, <<>>)
    ELSE IF ~dbOk
    THEN Outcome(NilResponse, Wrap("failed to create account", ConnectionError),
                 db, <<>>)
    ELSE IF req.name \in Rows(db)
    THEN Outcome(NilResponse,
                 Wrap("failed to create account",
                      Err("pgx", <<>>, "duplicate key", <<>>)),
                 db, <<>>)
    ELSE Outcome([id |-> req.name, type |-> 1], Nil, Append(db, req.name), <<>>)

\* AccountDbRepository.DeleteAccount: DELETE FROM accounts WHERE id = $1
RepositoryDeleteAccount(req, db, dbOk) ==
    IF ~dbOk
    THEN Outcome(NilResponse, Wrap("failed to delete account", ConnectionError),
                 db, <<>>)
    ELSE IF req.id \notin Rows(db)
    THEN Outcome([code |-> 404, message |-> "Account not found"],
                 Err("repository", <<>>, "account not found", <<>>), db, <<>>)
    ELSE Outcome([code |-> 200, message |-> "Account deleted successfully"],
                 Nil, Without(db, req.id), <<>>)

\* AccountDbRepository.ListAccounts: SELECT ... ORDER BY created_at DESC
RepositoryListAccounts(req, db, dbOk) ==
    IF ~dbOk
    THEN Outcome(NilResponse, Wrap("failed to list accounts", ConnectionError),
                 db, <<>>)
    ELSE Outcome([accounts |-> [k \in 1..Len(db) |->
                                  [id |-> Reverse(db)[k], type |-> 1]]],
                 Nil, db, <<>>)

\* The repository's handler of a message: the method above for the request
\* the message carries.
RepositoryHandle(ctx, message, db, dbOk) ==
    LET r == CASE message.kind = "MiddleOneRequest" ->
                    RepositoryCreateAccount(message.request, db, dbOk)
               [] message.kind = "AccountDeletionRequest" ->
                    RepositoryDeleteAccount(message, db, dbOk)
               [] message.kind = "ListAccountsRequest" ->
                    RepositoryListAccounts(message, db, dbOk)
    IN  Outcome(r.resp, r.err, r.db,
                <<Hop("accountRepository", ctx, message, NotForwarded,
                      Returned(r))>>)

\* MiddleTwo.HandleMiddleOneRequest: returns nil to continue the chain.
MiddleTwoHandleMiddleOneRequest(ctx, message, db) ==
    Outcome(NilResponse, Nil, db,
            <<Hop("middlewareTwo", ctx, message, NotForwarded,
                  [resp |-> NilResponse, err |-> Nil])>>)

\* GrpcMessenger.SendMiddleOneRequestFromMiddlewareOne: middlewareTwo, then
\* accountRepository.
SendMiddleOneRequestFromMiddlewareOne(ctx, message, db, dbOk) ==
    LET chain  == <<"middlewareTwo", "accountRepository">>
        first  == MiddleTwoHandleMiddleOneRequest(ctx, message, db)
        step   == RouteStep(chain, 1, [resp |-> ZeroValue, err |-> first.err])
        second == RepositoryHandle(ctx, message, first.db, dbOk)
    IN  IF step.done
        THEN Outcome(NilResponse, step.result.err, first.db, first.hops)
        ELSE Outcome(RouteStep(chain, 2, Returned(second)).result.resp,
                     RouteStep(chain, 2, Returned(second)).result.err,
                     second.db, first.hops \o second.hops)

\* GrpcMessenger.Send<Message>FromMiddlewareTwo: accountRepository alone.
SendFromMiddlewareTwo(ctx, message, db, dbOk) ==
    LET only == RepositoryHandle(ctx, message, db, dbOk)
        step == RouteStep(<<"accountRepository">>, 1, Returned(only))
    IN  Outcome(step.result.resp, step.result.err, only.db, only.hops)

\* What a middleware returns after its call through `next` returned r:
\*   if err != nil { return nil, err }; return result, nil
PassThrough(r) ==
    IF r.err # Nil THEN [resp |-> NilResponse, err |-> r.err]
    ELSE [resp |-> r.resp, err |-> Nil]

\* Faulty variant: MiddleOne forwards before it looks at the session, with
\* the context it was given.
MiddleOneForwardsFirst(ctx, req, db, dbOk) ==
    LET auth == ExtractUserID(ctx)
        r    == SendMiddleOneRequestFromMiddlewareOne(ctx, req, db, dbOk)
        out  == IF auth.err # Nil
                THEN [resp |-> NilResponse, err |-> auth.err]
                ELSE PassThrough(r)
    IN  Outcome(out.resp, out.err, r.db,
                <<Hop("middlewareOne", ctx, req, Returned(r), out)>> \o r.hops)

\* MiddleOne.HandleMiddleOneRequest
MiddleOneHandleMiddleOneRequest(ctx, req, db, dbOk) ==
    LET auth == ExtractUserID(ctx)
    IN  IF auth.err # Nil
        THEN Outcome(NilResponse, auth.err, db,
                     <<Hop("middlewareOne", ctx, req, NotForwarded,
                           [resp |-> NilResponse, err |-> auth.err])>>)
        ELSE LET r   == SendMiddleOneRequestFromMiddlewareOne(
                          WithUserID(ctx, auth.userID), req, db, dbOk)
                 out == PassThrough(r)
             IN  Outcome(out.resp, out.err, r.db,
                         <<Hop("middlewareOne", ctx, req, Returned(r), out)>>
                           \o r.hops)

\* MiddleTwo.HandleAccountDeletionRequest and HandleListAccountsRequest.
MiddleTwoHandle(ctx, req, db, dbOk) ==
    LET r   == SendFromMiddlewareTwo(ctx, req, db, dbOk)
        out == PassThrough(r)
    IN  Outcome(out.resp, out.err, r.db,
                <<Hop("middlewareTwo", ctx, req, Returned(r), out)>> \o r.hops)

\* GrpcMessenger.SendMiddleOneRequestFromAccountApi: middlewareOne alone.
SendMiddleOneRequestFromAccountApi(ctx, message, db, dbOk) ==
    LET only == MiddleOneHandleMiddleOneRequest(ctx, message, db, dbOk)
        step == RouteStep(<<"middlewareOne">>, 1, Returned(only))
    IN  Outcome(step.result.resp, step.result.err, only.db, only.hops)

\* GrpcMessenger.SendAccountDeletionRequestFromAccountApi and
\* SendListAccountsRequestFromAccountApi: middlewareTwo alone.
SendFromAccountApi(ctx, message, db, dbOk) ==
    LET only == MiddleTwoHandle(ctx, message, db, dbOk)
        step == RouteStep(<<"middlewareTwo">>, 1, Returned(only))
    IN  Outcome(step.result.resp, step.result.err, only.db, only.hops)

\* What an API method returns after the messenger returned r.
ApiResult(r, msg) ==
    IF r.err # Nil
    THEN Outcome(NilResponse, StatusError("Internal", msg, r.err), r.db, r.hops)
    ELSE r

\* ConfigurationApi.CreateAccount
CreateAccount(ctx, name, db, dbOk) ==
    IF name = <<>>
    THEN Outcome(NilResponse,
                 StatusError("InvalidArgument", "name is required", Nil),
                 db, <<>>)
    ELSE ApiResult(SendMiddleOneRequestFromAccountApi(
                     ctx, [kind |-> "MiddleOneRequest",
                           request |-> [name |-> name]], db, dbOk),
                   "failed to create account")

\* Faulty variant: the id is passed on as it came.
RequestedKeyUndecoded(id) == id

\* ConfigurationApi.DeleteAccount: the id, base64-decoded when it decodes.
RequestedKey(id) ==
    LET d == DecodeString(id)
    IN  IF d.err = Nil THEN d.decoded ELSE id

\* ConfigurationApi.DeleteAccount
DeleteAccount(ctx, id, db, dbOk) ==
    ApiResult(SendFromAccountApi(ctx, [kind |-> "AccountDeletionRequest",
                                       id |-> RequestedKey(id)], db, dbOk),
              "failed to delete account")

\* ConfigurationApi.ListAccounts
ListAccounts(ctx, db, dbOk) ==
    ApiResult(SendFromAccountApi(ctx, [kind |-> "ListAccountsRequest"],
                                 db, dbOk),
              "failed to list accounts")

\* An API call that was served: the request, the table before it, and what
\* the client got.
Served(op, arg, ctx, dbOk, r) ==
    [op |-> op, arg |-> arg, ctx |-> ctx, dbOk |-> dbOk, before |-> accounts,
     resp |-> r.resp, err |-> r.err, hops |-> r.hops]

Serve(op, arg, ctx, dbOk, r) ==
    /\ accounts' = r.db
    /\ calls' = IF Len(calls) = 2
                THEN <<calls[2], Served(op, arg, ctx, dbOk, r)>>
                ELSE Append(calls, Served(op, arg, ctx, dbOk, r))
    /\ UNCHANGED <<coreVars, poolVars, srvVars, build, migVars>>

ClientCreateAccount(name, session, dbOk) ==
    Serve("CreateAccount", name, Incoming(session), dbOk,
          CreateAccount(Incoming(session), name, accounts, dbOk))

ClientDeleteAccount(id, session, dbOk) ==
    Serve("DeleteAccount", id, Incoming(session), dbOk,
          DeleteAccount(Incoming(session), id, accounts, dbOk))

ClientListAccounts(session, dbOk) ==
    Serve("ListAccounts", <<>>, Incoming(session), dbOk,
          ListAccounts(Incoming(session), accounts, dbOk))

\* The generators and the messenger, for the parts that do not use them.
Parked ==
    /\ spec = NoDocument
    /\ pc = "serving"
    /\ err = Nil
    /\ fields = <<>>
    /\ messenger = <<>>
    /\ stack = [t \in Threads |-> <<>>]
    /\ last = NoCall
    /\ tool = [kind |-> "messenger-gen", template |-> "ok"]
    /\ args = BothFlags
    /\ input = "document"
    /\ disk = File("absent", <<>>)
    /\ exit = -1
    /\ console = <<>>
    /\ steps = <<>>
    /\ gen = NoGen
    /\ runs = <<>>

AppInit == Parked /\ ExtIdle

AppNext ==
    \/ \E name \in AccountNames, session \in Sessions, dbOk \in BOOLEAN :
         ClientCreateAccount(name, session, dbOk)
    \/ \E id \in AccountNames, session \in Sessions, dbOk \in BOOLEAN :
         ClientDeleteAccount(id, session, dbOk)
    \/ \E session \in Sessions, dbOk \in BOOLEAN :
         ClientListAccounts(session, dbOk)

AppSpec == AppInit /\ [][AppNext]_vars

(***************************************************************************)
(* The shared test database: GetPostgresContainer and GetPostgresPool.     *)
(* The package variables pgContainer and pgPool are read and written       *)
(* without a lock; only the container's creation is under a sync.Once.     *)
(* Pools are numbered in the order db.NewPool created them.                *)
(***************************************************************************)
\* The goroutines that call GetPostgresPool, and the calls each one makes.
Goroutines == {1, 2}
MaxPoolCalls == 2
NoPool == 0

\* What a call returned: (pool, err).
PoolResult(pool, e) == [pool |-> pool, err |-> e]

Getter(at, made, results) == [at |-> at, made |-> made, results |-> results]

\* A goroutine panicked: the test binary is gone.
Panicked == \E g \in Goroutines : getters[g].at = "panic"

CallReturns(g, r) ==
    getters' = [getters EXCEPT
                  ![g] = Getter("idle", NoPool, Append(@.results, r))]

\* The steps here leave the rest of the repository alone.
PoolOnly == UNCHANGED <<coreVars, appVars, srvVars, build, migVars>>

\* GetPostgresPool, its first statement: the pool is returned when the
\* package variable already holds one.
GetPostgresPoolCheck(g) ==
    /\ ~Panicked
    /\ getters[g].at = "idle"
    /\ Len(getters[g].results) < MaxPoolCalls
    /\ IF pgPool # NoPool
       THEN CallReturns(g, PoolResult(pgPool, Nil))
       ELSE getters' = [getters EXCEPT ![g].at = "container"]
    /\ UNCHANGED <<pgPool, pgContainer, pools>>
    /\ PoolOnly

\* GetPostgresContainer: the first caller starts the container inside
\* containerOnce.Do and gets its error; a later caller gets pgContainer as
\* the first one left it, with a nil error.  After a failed start that is
\* a nil container, and container.Host panics.
GetPostgresContainer(g, started) ==
    /\ ~Panicked
    /\ getters[g].at = "container"
    /\ IF pgContainer = "none"
       THEN /\ pgContainer' = IF started THEN "started" ELSE "failed"
            /\ IF started
               THEN getters' = [getters EXCEPT ![g].at = "connect"]
               ELSE CallReturns(g, PoolResult(NoPool,
                        Err("pool", <<>>,
                            "failed to get postgres container", <<>>)))
       ELSE /\ UNCHANGED pgContainer
            /\ getters' = [getters EXCEPT
                            ![g].at = IF pgContainer = "started"
                                      THEN "connect" ELSE "panic"]
    /\ UNCHANGED <<pgPool, pools>>
    /\ PoolOnly

\* container.Host, container.MappedPort and `pgPool, err = db.NewPool(...)`:
\* the assignment writes the package variable whatever NewPool returned.
ConnectOutcomes == {"host", "port", "pool", "ok"}
ConnectError(outcome) ==
    Err("pool", <<>>,
        CASE outcome = "host" -> "failed to get container host"
          [] outcome = "port" -> "failed to get container port"
          [] outcome = "pool" -> "failed to create connection pool",
        <<>>)

NewPoolAssigned(g, outcome) ==
    /\ ~Panicked
    /\ getters[g].at = "connect"
    /\ CASE outcome = "ok" ->
              /\ pools' = pools + 1
              /\ pgPool' = pools + 1
              /\ getters' = [getters EXCEPT ![g].at = "return",
                                            ![g].made = pools + 1]
         [] outcome = "pool" ->
              /\ pgPool' = NoPool
              /\ UNCHANGED pools
              /\ CallReturns(g, PoolResult(NoPool, ConnectError(outcome)))
         [] OTHER ->
              /\ UNCHANGED <<pgPool, pools>>
              /\ CallReturns(g, PoolResult(NoPool, ConnectError(outcome)))
    /\ UNCHANGED pgContainer
    /\ PoolOnly

\* `return pgPool, nil`: the value this goroutine assigned, or the package
\* variable as it is now when the build reads it again.
GetPostgresPoolReturn(g, pool) ==
    /\ ~Panicked
    /\ getters[g].at = "return"
    /\ pool \in {getters[g].made, pgPool}
    /\ CallReturns(g, PoolResult(pool, Nil))
    /\ UNCHANGED <<pgPool, pgContainer, pools>>
    /\ PoolOnly

PoolInit ==
    /\ Parked
    /\ AppIdle /\ SrvIdle /\ BuildIdle /\ MigIdle
    /\ pgPool = NoPool
    /\ pgContainer = "none"
    /\ pools = 0
    /\ getters = [g \in Goroutines |-> Getter("idle", NoPool, <<>>)]

PoolNext ==
    \/ \E g \in Goroutines : GetPostgresPoolCheck(g)
    \/ \E g \in Goroutines, started \in BOOLEAN :
         GetPostgresContainer(g, started)
    \/ \E g \in Goroutines, outcome \in ConnectOutcomes :
         NewPoolAssigned(g, outcome)
    \/ \E g \in Goroutines, pool \in 0..pools :
         GetPostgresPoolReturn(g, pool)

PoolSpec == PoolInit /\ [][PoolNext]_vars

(***************************************************************************)
(* ServerBase: Launch starts one goroutine for each registered server;     *)
(* each binds its port, reports it, starts a goroutine that stops the      *)
(* server once shutdownCtx is cancelled, and serves until stopped.         *)
(* createServer launches a ServerBase in the background and waits until    *)
(* it is ready.                                                            *)
(***************************************************************************)
\* What s.Register registers: a gRPC server and its HTTP gateway.
Registered == {"grpc", "http"}
totalServers == Cardinality(Registered)

\* at: where the start goroutine of the server is; bound: net.Listen
\* succeeded; listener: the goroutine waiting for shutdownCtx; stopped:
\* GracefulStop (gRPC) or Shutdown (HTTP) has been called on the server.
Server(at, bound, listener, stopped) ==
    [at |-> at, bound |-> bound, listener |-> listener, stopped |-> stopped]

SrvOnly == UNCHANGED <<coreVars, appVars, poolVars, build, migVars>>
Running == ~base.exited

\* createServer: `go func() { defer close(serverDone); server.Launch(...) }`
\* reaches runServer, which starts the goroutines of the servers and the
\* one that waits for serversReady, and then waits on the WaitGroup.
runServer ==
    /\ Running
    /\ harness.launch = "go"
    /\ harness' = [harness EXCEPT !.launch = "wg.Wait", !.marker = "waiting"]
    /\ servers' = [s \in Registered |-> [servers[s] EXCEPT !.at = "Listen"]]
    /\ UNCHANGED base
    /\ SrvOnly

\* net.Listen; log.Fatalf ends the process when the port cannot be bound.
Listen(s, ok) ==
    /\ Running
    /\ servers[s].at = "Listen"
    /\ IF ok
       THEN /\ servers' = [servers EXCEPT ![s].at = "onReady",
                                          ![s].bound = TRUE]
            /\ UNCHANGED base
       ELSE /\ base' = [base EXCEPT !.exited = TRUE]
            /\ UNCHANGED servers
    /\ UNCHANGED harness
    /\ SrvOnly

\* serverStarted, under startedMu: the last server to report closes
\* serversReady.
serverStartedFirst(s) ==
    /\ Running
    /\ servers[s].at = "onReady"
    /\ servers' = [servers EXCEPT ![s].at = "go"]
    /\ base' = [base EXCEPT !.startedCount = @ + 1,
                            !.serversReady = @ \/ base.startedCount + 1 >= 1]
    /\ UNCHANGED harness
    /\ SrvOnly

serverStarted(s) ==
    /\ Running
    /\ servers[s].at = "onReady"
    /\ servers' = [servers EXCEPT ![s].at = "go"]
    /\ base' = [base EXCEPT
                  !.startedCount = @ + 1,
                  !.serversReady = @ \/ base.startedCount + 1 = totalServers]
    /\ UNCHANGED harness
    /\ SrvOnly

\* `go func() { <-s.shutdownCtx.Done(); ... }()`
ShutdownListener(s) ==
    /\ Running
    /\ servers[s].at = "go"
    /\ servers' = [servers EXCEPT ![s].at = "Serve",
                                  ![s].listener = "waiting"]
    /\ UNCHANGED <<base, harness>>
    /\ SrvOnly

\* The shutdown listener after the context is cancelled:
\* grpcServer.GracefulStop() or httpServer.Shutdown(context.Background()).
GracefulStop(s) ==
    /\ Running
    /\ servers[s].listener = "waiting"
    /\ base.cancelled
    /\ servers' = [servers EXCEPT ![s].listener = "done",
                                  ![s].stopped = TRUE]
    /\ UNCHANGED <<base, harness>>
    /\ SrvOnly

\* Serve on a server that was stopped before forgets the stop.
ServerServeForgetsStop(s) ==
    /\ Running
    /\ servers[s].at = "Serve"
    /\ servers' = [servers EXCEPT ![s].at = "serving", ![s].stopped = FALSE]
    /\ UNCHANGED <<base, harness>>
    /\ SrvOnly

\* grpcServer.Serve(lis) / httpServer.Serve(lis): a server that was stopped
\* already returns at once (grpc.ErrServerStopped, http.ErrServerClosed) and
\* the deferred wg.Done runs.
ServerServe(s) ==
    /\ Running
    /\ servers[s].at = "Serve"
    /\ servers' = [servers EXCEPT
                     ![s].at = IF servers[s].stopped
                               THEN "returned" ELSE "serving"]
    /\ UNCHANGED <<base, harness>>
    /\ SrvOnly

\* Serve returns once the server is stopped; the deferred wg.Done runs.
ServeReturns(s) ==
    /\ Running
    /\ servers[s].at = "serving"
    /\ servers[s].stopped
    /\ servers' = [servers EXCEPT ![s].at = "returned"]
    /\ UNCHANGED <<base, harness>>
    /\ SrvOnly

\* `go func() { <-serversReady; s.markReady() }()`: close(s.ready) inside
\* readyOnce.Do.
markReady ==
    /\ Running
    /\ harness.marker = "waiting"
    /\ base.serversReady
    /\ harness' = [harness EXCEPT !.marker = "done"]
    /\ base' = [base EXCEPT !.readyOnce = TRUE,
                            !.ready = IF base.readyOnce THEN @ ELSE @ + 1]
    /\ UNCHANGED servers
    /\ SrvOnly

\* s.wg.Wait() returns, runServer and Launch return, and the deferred
\* close(serverDone) of createServer's goroutine runs.
LaunchReturns ==
    /\ Running
    /\ harness.launch = "wg.Wait"
    /\ \A s \in Registered : servers[s].at = "returned"
    /\ harness' = [harness EXCEPT !.launch = "returned", !.serverDone = TRUE]
    /\ UNCHANGED <<servers, base>>
    /\ SrvOnly

\* What the servers were doing when the context was cancelled first.
Cancelled ==
    [base EXCEPT !.cancelled = TRUE,
                 !.cancelledAt = IF base.cancelled THEN @
                                 ELSE [s \in Registered |-> servers[s].at]]

\* WaitUntilReady: `case <-s.ready: return nil`; createServer returns the
\* TestServerContext.
WaitUntilReady ==
    /\ Running
    /\ harness.test = "WaitUntilReady"
    /\ base.ready > 0
    /\ harness' = [harness EXCEPT !.test = "ready"]
    /\ UNCHANGED <<servers, base>>
    /\ SrvOnly

\* WaitUntilReady: `case <-time.After(timeout)`; createServer calls
\* server.Shutdown() and waits for serverDone.
WaitUntilReadyTimeout ==
    /\ Running
    /\ harness.test = "WaitUntilReady"
    /\ harness' = [harness EXCEPT !.test = "<-serverDone",
                                  !.failed = TRUE]
    /\ base' = Cancelled
    /\ UNCHANGED servers
    /\ SrvOnly

\* TestServerContext.Shutdown: s.server.Shutdown(), then <-s.serverDone.
Shutdown ==
    /\ Running
    /\ harness.test = "ready"
    /\ harness' = [harness EXCEPT !.test = "<-serverDone"]
    /\ base' = Cancelled
    /\ UNCHANGED servers
    /\ SrvOnly

\* <-serverDone
ServerDone ==
    /\ Running
    /\ harness.test = "<-serverDone"
    /\ harness.serverDone
    /\ harness' = [harness EXCEPT !.test = "done"]
    /\ UNCHANGED <<servers, base>>
    /\ SrvOnly

\* setupGracefulShutdown: SIGINT or SIGTERM cancels the context, whatever
\* the servers are doing.
Signal ==
    /\ Running
    /\ harness.launch # "go"
    /\ ~base.cancelled
    /\ base' = Cancelled
    /\ UNCHANGED <<servers, harness>>
    /\ SrvOnly

ServerInit ==
    /\ Parked
    /\ AppIdle /\ PoolIdle /\ BuildIdle /\ MigIdle
    /\ servers = [s \in Registered |-> Server("unstarted", FALSE, "none", FALSE)]
    /\ base = [cancelled |-> FALSE, cancelledAt |-> <<>>, startedCount |-> 0,
               serversReady |-> FALSE, readyOnce |-> FALSE, ready |-> 0,
               exited |-> FALSE]
    /\ harness = [launch |-> "go", marker |-> "none", serverDone |-> FALSE,
                  test |-> "WaitUntilReady", failed |-> FALSE]

ServerNext ==
    \/ runServer
    \/ \E s \in Registered, ok \in BOOLEAN : Listen(s, ok)
    \/ \E s \in Registered : serverStarted(s)
    \/ \E s \in Registered : ShutdownListener(s)
    \/ \E s \in Registered : GracefulStop(s)
    \/ \E s \in Registered : ServerServe(s)
    \/ \E s \in Registered : ServeReturns(s)
    \/ markReady
    \/ LaunchReturns
    \/ WaitUntilReady
    \/ WaitUntilReadyTimeout
    \/ Shutdown
    \/ ServerDone
    \/ Signal

ServerSpec == ServerInit /\ [][ServerNext]_vars

\* The goroutines are scheduled: every step of a goroutine that can run
\* is taken in the end.  The timeout, the test's Shutdown and a signal are
\* steps of the environment and need not happen.
ServerFairness ==
    /\ WF_vars(runServer)
    /\ \A s \in Registered :
         /\ WF_vars(\E ok \in BOOLEAN : Listen(s, ok))
         /\ WF_vars(serverStarted(s))
         /\ WF_vars(ShutdownListener(s))
         /\ WF_vars(GracefulStop(s))
         /\ WF_vars(ServerServe(s))
         /\ WF_vars(ServeReturns(s))
    /\ WF_vars(markReady)
    /\ WF_vars(LaunchReturns)
    /\ WF_vars(WaitUntilReady)
    /\ WF_vars(ServerDone)

ServerLiveSpec == ServerInit /\ [][ServerNext]_vars /\ ServerFairness

(***************************************************************************)
(* TestContextBuilder.Build: the shared container, the admin connection,   *)
(* the configured databases in order, then the configured servers in       *)
(* order.  Each step can fail; Build then closes what its error path       *)
(* names and returns the error.                                            *)
(***************************************************************************)
\* How many databases and servers a builder is configured with, at most.
MaxDatabases == 2
MaxServers == 2

BuildOnly == UNCHANGED <<coreVars, appVars, poolVars, srvVars, migVars>>

\* pool.Close() on every client in the list.
CloseAll(clients) == [i \in 1..Len(clients) |-> "closed"]

\* `return nil, fmt.Errorf(...)`
BuildFails(b, msg) ==
    [b EXCEPT !.at = "returned", !.result = Err("build", <<>>, msg, <<>>)]

\* getOrCreateContainer
BuildContainer(ok) ==
    /\ build.at = "getOrCreateContainer"
    /\ build' = IF ok THEN [build EXCEPT !.at = "db.NewPool"]
                ELSE BuildFails(build, "container")
    /\ BuildOnly

\* postgresClient, err := db.NewPool(ctx, testConfig)
BuildConnect(ok) ==
    /\ build.at = "db.NewPool"
    /\ build' = IF ok
                THEN [build EXCEPT !.at = "initSQL",
                                   !.postgresClient = "open"]
                ELSE BuildFails(build,
                                "failed to connect to postgres database")
    /\ BuildOnly

\* postgresClient.Exec(ctx, initSQL)
BuildInitSQL(ok) ==
    /\ build.at = "initSQL"
    /\ build' = IF ok
                THEN [build EXCEPT !.at = "databases"]
                ELSE BuildFails([build EXCEPT !.postgresClient = "closed"],
                                "failed to create test_databases table")
    /\ BuildOnly

\* The loop over b.databases: createDatabase opens its client as its last
\* step, so a failing createDatabase has opened none.
BuildCreateDatabase(ok) ==
    /\ build.at = "databases"
    /\ Len(build.databases) < build.config.databases
    /\ build' = IF ok
                THEN [build EXCEPT !.databases = Append(@, "open")]
                ELSE BuildFails([build EXCEPT
                                   !.databases = CloseAll(@),
                                   !.postgresClient = "closed"],
                                "failed to create database")
    /\ BuildOnly

\* dependencyProvider := NewTestContextProvider(databases)
BuildProvider ==
    /\ build.at = "databases"
    /\ Len(build.databases) = build.config.databases
    /\ build' = [build EXCEPT !.at = "servers"]
    /\ BuildOnly

\* The loop over b.servers: createServer launches the server and waits
\* until it is ready; when it is not ready in time createServer shuts that
\* server down, waits for it, and returns the error.
BuildCreateServer(ready) ==
    /\ build.at = "servers"
    /\ Len(build.servers) < build.config.servers
    /\ build' = IF ready
                THEN [build EXCEPT !.servers = Append(@, "running")]
                ELSE BuildFails([build EXCEPT
                                   !.servers = Append(@, "shut down"),
                                   !.databases = CloseAll(@),
                                   !.postgresClient = "closed"],
                                "failed to create server")
    /\ BuildOnly

\* return &TestContext{...}, nil
BuildReturns ==
    /\ build.at = "servers"
    /\ Len(build.servers) = build.config.servers
    /\ build' = [build EXCEPT !.at = "returned", !.result = Nil]
    /\ BuildOnly

\* A builder after WithDatabase and WithServer, and Build called.
BuildInit ==
    /\ Parked
    /\ AppIdle /\ PoolIdle /\ SrvIdle /\ MigIdle
    /\ \E d \in 0..MaxDatabases, s \in 0..MaxServers :
         build = [config |-> [databases |-> d, servers |-> s],
                  at |-> "getOrCreateContainer", postgresClient |-> "none",
                  databases |-> <<>>, servers |-> <<>>, result |-> Nil]

BuildNext ==
    \/ \E ok \in BOOLEAN : BuildContainer(ok)
    \/ \E ok \in BOOLEAN : BuildConnect(ok)
    \/ \E ok \in BOOLEAN : BuildInitSQL(ok)
    \/ \E ok \in BOOLEAN : BuildCreateDatabase(ok)
    \/ BuildProvider
    \/ \E ready \in BOOLEAN : BuildCreateServer(ready)
    \/ BuildReturns

BuildSpec == BuildInit /\ [][BuildNext]_vars

(***************************************************************************)
(* RunDbmateMigrations: read the migration files sorted by version, read   *)
(* the versions schema_migrations holds, and apply each file whose version *)
(* is not among them in a transaction of its own: the up SQL, then the     *)
(* INSERT of the version, then the commit.                                 *)
(***************************************************************************)
\* Versions are strings of digits: "1", "10" and "2".
MigrationVersions == { <<1>>, <<1, 0>>, <<2>> }
\* How many files a migrations directory holds, and how many runs are made.
MaxFiles == 3
MaxMigrationRuns == 2

\* a < b on Go strings: byte by byte, a proper prefix first.
RECURSIVE StringLess(_, _)
StringLess(a, b) ==
    IF b = <<>> THEN FALSE
    ELSE IF a = <<>> THEN TRUE
    ELSE IF Head(a) # Head(b) THEN Head(a) < Head(b)
    ELSE StringLess(Tail(a), Tail(b))

\* The versions of the *.sql files of a directory, as filepath.Glob lists
\* the files.
Directories ==
    UNION { [1..n -> MigrationVersions] : n \in 0..MaxFiles }

RECURSIVE InsertByVersion(_, _)
InsertByVersion(sorted, v) ==
    IF sorted = <<>> THEN <<v>>
    ELSE IF StringLess(v, Head(sorted)) THEN <<v>> \o sorted
    ELSE <<Head(sorted)>> \o InsertByVersion(Tail(sorted), v)

RECURSIVE SortByVersion(_)
SortByVersion(files) ==
    IF files = <<>> THEN <<>>
    ELSE InsertByVersion(SortByVersion(Tail(files)), Head(files))

readDbmateMigrationsUnsorted(dir) == dir

\* readDbmateMigrations: the files parsed, then sort.Slice by Version.
readDbmateMigrations(dir) == SortByVersion(dir)

\* getAppliedMigrations: SELECT version FROM schema_migrations
getAppliedMigrations(db) == db.schema_migrations

MigOnly == UNCHANGED <<coreVars, appVars, poolVars, srvVars, build>>

NoTx == [open |-> FALSE, upSQL |-> FALSE, version |-> FALSE]
InLoop == migration.at = "loop" /\ migration.i <= Len(migration.files)
Current == migration.files[migration.i]

\* A run from its start to the loop: connect, CREATE TABLE IF NOT EXISTS,
\* readDbmateMigrations, getAppliedMigrations.
RunDbmateMigrations(dir, ok) ==
    /\ migration.at = "idle"
    /\ Len(migration.failedAt) < MaxMigrationRuns
    /\ IF ok
       THEN migration' = [migration EXCEPT
                            !.at = "loop",
                            !.files = readDbmateMigrations(dir),
                            !.appliedVersions = getAppliedMigrations(database),
                            !.i = 1,
                            !.failedAt = Append(@, -1)]
       ELSE migration' = [migration EXCEPT
                            !.failedAt = Append(@, Len(database.committed))]
    /\ UNCHANGED database
    /\ MigOnly

\* `if _, applied := appliedVersions[migration.Version]; applied { continue }`
MigrationSkipped ==
    /\ InLoop
    /\ ~migration.tx.open
    /\ Current \in migration.appliedVersions
    /\ migration' = [migration EXCEPT !.i = @ + 1]
    /\ UNCHANGED database
    /\ MigOnly

\* `return fmt.Errorf(...)` inside the loop: the run is over, the
\* transaction rolled back or not committed.  failedAt keeps, for each run,
\* how many migrations the database had committed when the run failed
\* (-1 for a run that has not failed).
StopRun ==
    migration' = [migration EXCEPT
                    !.at = "idle", !.tx = NoTx,
                    !.failedAt[Len(migration.failedAt)] =
                        Len(database.committed)]

\* tx, err := pool.Begin(ctx)
MigrationBegin(ok) ==
    /\ InLoop
    /\ ~migration.tx.open
    /\ Current \notin migration.appliedVersions
    /\ IF ok
       THEN migration' = [migration EXCEPT !.tx.open = TRUE]
       ELSE StopRun
    /\ UNCHANGED database
    /\ MigOnly

\* tx.Exec(ctx, upSQL); tx.Rollback and return when it fails.
MigrationUp(ok) ==
    /\ InLoop
    /\ migration.tx.open /\ ~migration.tx.upSQL
    /\ IF ok
       THEN migration' = [migration EXCEPT !.tx.upSQL = TRUE]
       ELSE StopRun
    /\ UNCHANGED database
    /\ MigOnly

\* tx.Exec(ctx, "INSERT INTO schema_migrations ..."): version is the
\* primary key, so a version the table holds already is refused;
\* tx.Rollback and return when it fails.
MigrationRecord(ok) ==
    /\ InLoop
    /\ migration.tx.upSQL /\ ~migration.tx.version
    /\ IF ok /\ Current \notin database.schema_migrations
       THEN migration' = [migration EXCEPT !.tx.version = TRUE]
       ELSE StopRun
    /\ UNCHANGED database
    /\ MigOnly

\* tx.Commit(ctx): what the transaction wrote becomes the database's, all
\* of it or none.
MigrationCommit(ok) ==
    /\ InLoop
    /\ migration.tx.version
    /\ IF ok
       THEN /\ database' =
                 [schema_migrations |->
                      database.schema_migrations \cup {Current},
                  committed |->
                      Append(database.committed,
                             [version |-> Current,
                              run |-> Len(migration.failedAt)])]
            /\ migration' = [migration EXCEPT !.tx = NoTx, !.i = @ + 1]
       ELSE /\ UNCHANGED database
            /\ StopRun
    /\ MigOnly

\* "All migrations completed successfully"; return nil
RunCompleted ==
    /\ migration.at = "loop"
    /\ migration.i > Len(migration.files)
    /\ migration' = [migration EXCEPT !.at = "idle"]
    /\ UNCHANGED database
    /\ MigOnly

\* A database that was never migrated.
MigInit ==
    /\ Parked
    /\ AppIdle /\ PoolIdle /\ SrvIdle /\ BuildIdle
    /\ database = [schema_migrations |-> {}, committed |-> <<>>]
    /\ migration = [at |-> "idle", files |-> <<>>, appliedVersions |-> {},
                    i |-> 1, tx |-> NoTx, failedAt |-> <<>>]

MigNext ==
    \/ \E dir \in Directories, ok \in BOOLEAN : RunDbmateMigrations(dir, ok)
    \/ MigrationSkipped
    \/ \E ok \in BOOLEAN : MigrationBegin(ok)
    \/ \E ok \in BOOLEAN : MigrationUp(ok)
    \/ \E ok \in BOOLEAN : MigrationRecord(ok)
    \/ \E ok \in BOOLEAN : MigrationCommit(ok)
    \/ RunCompleted

MigSpec == MigInit /\ [][MigNext]_vars

(***************************************************************************)
(* The routing calls to judge: those in progress and the one that          *)
(* returned last.  invoked[k] is the position of the k-th receiver the     *)
(* call invoked and outs[k] what that receiver returned.                   *)
(***************************************************************************)
Calls ==
    UNION { { [route |-> stack[t][d].route, msg |-> stack[t][d].msg,
               invoked |-> stack[t][d].invoked, outs |-> stack[t][d].outs] :
              d \in 1..Len(stack[t]) } : t \in Threads }
    \cup
    (IF last.returned
     THEN { [route |-> last.route, msg |-> last.msg,
             invoked |-> last.invoked, outs |-> last.outs] }
     ELSE {})

ChainLen(c) == Len(spec.routes[c.route].messages[c.msg].receivers)

LastChainLen == Len(spec.routes[last.route].messages[last.msg].receivers)

\* C1: once the Intermediate receiver at index i of a routing call has
\* returned a non-nil error, that call invokes no receiver at an index j > i.
C1_NoReceiverAfterError ==
    \A c \in Calls :
      \A k \in 1..Len(c.outs) :
        (c.invoked[k] < ChainLen(c) /\ c.outs[k].err # Nil)
          => \A m \in 1..Len(c.invoked) : c.invoked[m] <= c.invoked[k]

\* A call over at least two receivers returned after its first receiver
\* failed, the later receivers never invoked.
C1_Witness ==
    /\ last.returned
    /\ LastChainLen >= 2
    /\ last.invoked = <<1>>
    /\ last.outs[1].err # Nil

\* C2: a routing call in which an Intermediate receiver returned the
\* non-nil error e returns (zero value, e), e unchanged.
C2_ErrorReturnedUnchanged ==
    last.returned =>
      \A k \in 1..Len(last.outs) :
        (last.invoked[k] < LastChainLen /\ last.outs[k].err # Nil)
          => last.result = [resp |-> ZeroValue, err |-> last.outs[k].err]

\* A call returned the error e2 of its second, Intermediate, receiver.
C2_Witness ==
    /\ last.returned
    /\ LastChainLen >= 3
    /\ Len(last.outs) = 2
    /\ last.outs[2].err = Err("handler", <<>>, "e2", <<>>)
    /\ last.result.err = last.outs[2].err

C4_InvokedInOrder ==
    \A c \in Calls :
      /\ \A a, b \in 1..Len(c.invoked) : a < b => c.invoked[a] < c.invoked[b]
      /\ \A b \in 1..Len(c.invoked) :
           /\ c.invoked[b] \in 1..ChainLen(c)
           /\ c.invoked[b] > 1 =>
                \E a \in 1..(b - 1) :
                  /\ c.invoked[a] = c.invoked[b] - 1
                  /\ a <= Len(c.outs)
                  /\ c.outs[a].err = Nil

\* The Terminal receiver of a chain of three is running, both Intermediate
\* receivers having returned.
C4_Witness ==
    \E t \in Threads :
      /\ stack[t] # <<>>
      /\ Top(t).running
      /\ Top(t).invoked = <<1, 2, 3>>
      /\ Len(Top(t).outs) = 2

(***************************************************************************)
(* The validator, stated over the document.                                *)
(***************************************************************************)
DeclaredNames == { spec.handlers[h].name : h \in 1..Len(spec.handlers) }

\* Some route source or receiver name is not the name of a declared handler.
HasUnresolvedReference ==
    \E i \in 1..Len(spec.routes) :
      \/ spec.routes[i].source \notin DeclaredNames
      \/ \E j \in 1..Len(spec.routes[i].messages) :
           \E k \in 1..Len(spec.routes[i].messages[j].receivers) :
             spec.routes[i].messages[j].receivers[k] \notin DeclaredNames

\* The document passes every check other than the resolution of names.
OtherwiseValid ==
    /\ spec.package # ""
    /\ Len(spec.handlers) > 0
    /\ Len(spec.routes) > 0
    /\ \A h \in 1..Len(spec.handlers) :
         spec.handlers[h].name # "" /\ spec.handlers[h].type # ""
    /\ \A i \in 1..Len(spec.routes) :
         /\ spec.routes[i].source # ""
         /\ Len(spec.routes[i].messages) > 0
         /\ \A j \in 1..Len(spec.routes[i].messages) :
              /\ spec.routes[i].messages[j].message # ""
              /\ Len(spec.routes[i].messages[j].receivers) > 0

\* The name an unknown-handler error cites is the name at the place it cites.
CitesNameInPlace(e) ==
    \/ /\ e.kind = "unknown_source"
       /\ Len(e.at) = 1
       /\ e.at[1] + 1 \in 1..Len(spec.routes)
       /\ e.name = spec.routes[e.at[1] + 1].source
    \/ /\ e.kind = "unknown_receiver"
       /\ Len(e.at) = 3
       /\ e.at[1] + 1 \in 1..Len(spec.routes)
       /\ e.at[2] + 1 \in 1..Len(spec.routes[e.at[1] + 1].messages)
       /\ e.at[3] + 1 \in
            1..Len(spec.routes[e.at[1] + 1].messages[e.at[2] + 1].receivers)
       /\ e.name =
            spec.routes[e.at[1] + 1].messages[e.at[2] + 1].receivers[e.at[3] + 1]

UnknownHandlerKinds == {"unknown_source", "unknown_receiver"}

\* C5: a document with a route source or receiver name that is no declared
\* handler is rejected; an unknown-handler error cites a name of the document
\* that is not declared and lists the names of all declared handlers, in
\* declaration order; it is the error returned when the document is valid
\* otherwise; a document whose references all resolve never gets it.
C5_UnknownHandlerRejected ==
    pc # "start" =>
      /\ HasUnresolvedReference => err # Nil
      /\ (HasUnresolvedReference /\ OtherwiseValid)
           => Cause(err).kind \in UnknownHandlerKinds
      /\ Cause(err).kind \in UnknownHandlerKinds =>
           /\ CitesNameInPlace(Cause(err))
           /\ Cause(err).name \notin DeclaredNames
           /\ Cause(err).available =
                [h \in 1..Len(spec.handlers) |-> spec.handlers[h].name]
      /\ ~HasUnresolvedReference => Cause(err).kind \notin UnknownHandlerKinds

\* Handlers A and B, a route from A with the receiver C: rejected, citing C
\* and listing A, B.
C5_Witness ==
    /\ pc = "failed"
    /\ Len(spec.handlers) = 2
    /\ Len(spec.routes) = 1
    /\ spec.routes[1].source = "A"
    /\ Cause(err).kind = "unknown_receiver"
    /\ Cause(err).name = "C"
    /\ Cause(err).available = <<"A", "B">>

(***************************************************************************)
(* The order of Validate's checks.  Every violated check of the document,  *)
(* with the place Validate meets it at: the checks of the whole document   *)
(* first, then the handlers in order, then route by route, inside a route  *)
(* message by message, inside a message receiver by receiver.              *)
(***************************************************************************)
Violations ==
    (IF spec.package = ""
     THEN { [key |-> <<0>>, e |-> Err("package_required", <<>>, "", <<>>)] }
     ELSE {})
    \cup
    (IF Len(spec.handlers) = 0
     THEN { [key |-> <<1>>, e |-> Err("handler_required", <<>>, "", <<>>)] }
     ELSE {})
    \cup
    (IF Len(spec.routes) = 0
     THEN { [key |-> <<2>>, e |-> Err("route_required", <<>>, "", <<>>)] }
     ELSE {})
    \cup
    { [key |-> <<3, h, 0>>,
       e |-> Err("handler_name_required", <<h - 1>>, "", <<>>)] :
      h \in { x \in 1..Len(spec.handlers) : spec.handlers[x].name = "" } }
    \cup
    { [key |-> <<3, h, 1>>,
       e |-> Err("handler_type_required", <<h - 1>>, "", <<>>)] :
      h \in { x \in 1..Len(spec.handlers) : spec.handlers[x].type = "" } }
    \cup
    { [key |-> <<4, i, 0>>, e |-> Err("source_required", <<i - 1>>, "", <<>>)] :
      i \in { x \in 1..Len(spec.routes) : spec.routes[x].source = "" } }
    \cup
    { [key |-> <<4, i, 1>>,
       e |-> Err("unknown_source", <<i - 1>>, spec.routes[i].source,
                 [h \in 1..Len(spec.handlers) |-> spec.handlers[h].name])] :
      i \in { x \in 1..Len(spec.routes) :
                spec.routes[x].source \notin DeclaredNames \cup {""} } }
    \cup
    { [key |-> <<4, i, 2>>,
       e |-> Err("message_required", <<i - 1>>, spec.routes[i].source, <<>>)] :
      i \in { x \in 1..Len(spec.routes) : Len(spec.routes[x].messages) = 0 } }
    \cup
    UNION { { [key |-> <<4, i, 3, j, 0>>,
               e |-> Err("message_type_required", <<i - 1, j - 1>>, "", <<>>)] :
              j \in { y \in 1..Len(spec.routes[i].messages) :
                        spec.routes[i].messages[y].message = "" } } :
            i \in 1..Len(spec.routes) }
    \cup
    UNION { { [key |-> <<4, i, 3, j, 1>>,
               e |-> Err("receiver_required", <<i - 1, j - 1>>, "", <<>>)] :
              j \in { y \in 1..Len(spec.routes[i].messages) :
                        Len(spec.routes[i].messages[y].receivers) = 0 } } :
            i \in 1..Len(spec.routes) }
    \cup
    UNION { UNION { { [key |-> <<4, i, 3, j, 2, k>>,
                       e |-> Err("unknown_receiver", <<i - 1, j - 1, k - 1>>,
                                 spec.routes[i].messages[j].receivers[k],
                                 [h \in 1..Len(spec.handlers) |->
                                    spec.handlers[h].name])] :
                      k \in { z \in 1..Len(spec.routes[i].messages[j].receivers) :
                                spec.routes[i].messages[j].receivers[z]
                                  \notin DeclaredNames } } :
                    j \in 1..Len(spec.routes[i].messages) } :
            i \in 1..Len(spec.routes) }

\* a comes before b in the order of the places (lexicographic).
RECURSIVE Before(_, _)
Before(a, b) ==
    IF a = <<>> THEN b # <<>>
    ELSE IF b = <<>> THEN FALSE
    ELSE IF Head(a) # Head(b) THEN Head(a) < Head(b)
    ELSE Before(Tail(a), Tail(b))

\* C6 (amended): Validate returns nil exactly when no check is violated,
\* and otherwise the error of the violated check it meets first: package,
\* handler count, route count, the handlers in order (name, then type), then
\* route by route (source given, source resolves, at least one message) and
\* inside a route message by message (type given, at least one receiver,
\* each receiver resolves in order).
C6_FirstViolationInTraversalOrder ==
    pc # "start" =>
      LET V == Violations
      IN  IF V = {} THEN err = Nil
          ELSE \E v \in V :
                 /\ \A w \in V : w.key # v.key => Before(v.key, w.key)
                 /\ err # Nil
                 /\ Cause(err) = v.e

\* An unknown receiver in the first route is reported although a later
\* route has an unknown source.
C6_Witness ==
    /\ pc = "failed"
    /\ Cause(err).kind = "unknown_receiver"
    /\ Cause(err).at[1] = 0
    /\ Len(spec.routes) = 2
    /\ spec.routes[2].source \notin DeclaredNames \cup {""}

\* The checks as the claim lists them, in the claim's order over the whole
\* document.
ClaimedClass(kind) ==
    CASE kind = "package_required" -> 1
      [] kind = "handler_required" -> 2
      [] kind = "route_required" -> 3
      [] kind \in {"handler_name_required", "handler_type_required"} -> 4
      [] kind \in {"source_required", "unknown_source"} -> 5
      [] kind = "receiver_required" -> 6
      [] kind = "unknown_receiver" -> 7
      [] OTHER -> 8

\* C6 (as claimed): the error returned is for the violated check that comes
\* first in the order package, handlers, routes, handler fields, every
\* source, every receivers list non-empty, every receiver name; stated for
\* the documents that violate none of the checks the claim does not list.
C6_FirstViolationInWholeSpecOrder ==
    pc # "start" =>
      LET V == Violations
      IN  (V # {} /\ \A v \in V : ClaimedClass(v.e.kind) < 8) =>
            \A v \in V :
              ClaimedClass(Cause(err).kind) <= ClaimedClass(v.e.kind)

\* C7 (as claimed): in an accepted document the handler names are pairwise
\* distinct.
C7_AcceptedHandlerNamesDistinct ==
    pc \in {"loaded", "generated", "serving"} =>
      \A a, b \in 1..Len(spec.handlers) :
        a # b => spec.handlers[a].name # spec.handlers[b].name

\* C8: a document with a message route that has no receivers is rejected,
\* so in an accepted document every message route has a last receiver.
C8_ReceiversNonEmpty ==
    /\ (pc # "start"
        /\ \E i \in 1..Len(spec.routes) :
             \E j \in 1..Len(spec.routes[i].messages) :
               spec.routes[i].messages[j].receivers = <<>>)
         => err # Nil
    /\ pc \in {"loaded", "generated", "serving"} =>
         \A i \in 1..Len(spec.routes) :
           \A j \in 1..Len(spec.routes[i].messages) :
             Len(spec.routes[i].messages[j].receivers) >= 1

\* A document valid but for a message route without receivers is rejected
\* for that.
C8_Witness ==
    /\ pc = "failed"
    /\ Cause(err).kind = "receiver_required"
    /\ Cardinality(Violations) = 1

(***************************************************************************)
(* The messenger's fields.                                                 *)
(***************************************************************************)
\* The names found in the receivers lists of the document.
ReceiverNamesUsed ==
    UNION { UNION { { spec.routes[i].messages[j].receivers[k] :
                        k \in 1..Len(spec.routes[i].messages[j].receivers) } :
                    j \in 1..Len(spec.routes[i].messages) } :
            i \in 1..Len(spec.routes) }

FieldNames == { fields[k].name : k \in 1..Len(fields) }

\* C9: a declared handler is a field of the messenger exactly when its name
\* is in the receivers list of some message of some route; a handler that
\* is only a route source is no field.
C9_FieldsAreTheReceivers ==
    pc \in {"generated", "serving"} =>
      /\ \A h \in 1..Len(spec.handlers) :
           spec.handlers[h].name \in FieldNames
             <=> spec.handlers[h].name \in ReceiverNamesUsed
      /\ FieldNames \subseteq DeclaredNames

\* Handlers A and B: A only sends, B receives; B alone is a field.
C9_Witness ==
    /\ pc = "generated"
    /\ Len(spec.handlers) = 2
    /\ \E i \in 1..Len(spec.routes) : spec.routes[i].source = "A"
    /\ "A" \notin ReceiverNamesUsed
    /\ FieldNames = {"B"}

\* The positions, in the handlers list, of the receiving handlers.
ReceivingPositions ==
    { h \in 1..Len(spec.handlers) : spec.handlers[h].name \in ReceiverNamesUsed }

\* The k-th receiving position, in declaration order.
NthReceiving(k) ==
    CHOOSE h \in ReceivingPositions :
      Cardinality({ x \in ReceivingPositions : x < h }) = k - 1

\* C10: the constructor has one parameter per receiving handler
\* declaration, in declaration order, the non-receiving handlers skipped,
\* and its k-th argument is the value of the field of the k-th receiving
\* handler.
C10_ConstructorInDeclarationOrder ==
    pc = "serving" =>
      /\ Len(messenger) = Cardinality(ReceivingPositions)
      /\ \A k \in 1..Len(messenger) :
           /\ messenger[k].field = spec.handlers[NthReceiving(k)].name
           /\ messenger[k].value.type = spec.handlers[NthReceiving(k)].type
           /\ messenger[k].value.arg = k

\* Two receiving handlers, B declared before A: B's field comes first.
C10_Witness ==
    /\ pc = "serving"
    /\ Len(messenger) = 2
    /\ messenger[1].field = "B"
    /\ messenger[2].field = "A"

(***************************************************************************)
(* The generated interfaces.                                               *)
(***************************************************************************)
\* The places <<i, j, k>> of the document where handlerName is a receiver.
Occurrences(handlerName) ==
    { o \in UNION { UNION { { <<i, j, k>> :
                                k \in 1..Len(spec.routes[i].messages[j].receivers) } :
                            j \in 1..Len(spec.routes[i].messages) } :
                    i \in 1..Len(spec.routes) } :
        spec.routes[o[1]].messages[o[2]].receivers[o[3]] = handlerName }

\* The method the place o calls for: error only for a receiver that is not
\* the last of its list, the response of the message for the last.
MethodShapeAt(o) ==
    LET msg == spec.routes[o[1]].messages[o[2]]
    IN  [message |-> msg.message,
         returns |-> IF o[3] = Len(msg.receivers) THEN msg.response ELSE "error"]

Shape(method) == [message |-> method.message, returns |-> method.returns]

\* interface-gen has rendered its text.
InterfacesRendered == gen.code.text.tool = "interface-gen"

CallerIsIntermediate(t, d) ==
    stack[t][d - 1].idx <
      Len(Receivers(spec, stack[t][d - 1].route, stack[t][d - 1].msg))

Originated(handlerName) ==
    UNION { { <<i, j>> : j \in 1..Len(spec.routes[i].messages) } :
            i \in { x \in 1..Len(spec.routes) :
                      spec.routes[x].source = handlerName } }

\* C13 (as claimed): in the rendered interfaces a handler has a sendable
\* interface exactly when it is the source of a route; the interface has one
\* method per message the handler originates; and two of its methods for
\* different message type tokens have different names.
C13_SendableMethodNamesDistinct ==
    InterfacesRendered =>
      \A h \in 1..Len(spec.handlers) :
        LET methods == gen.code.text.sendable[h]
            name    == spec.handlers[h].name
        IN  /\ methods # <<>> <=> \E i \in 1..Len(spec.routes) :
                                   spec.routes[i].source = name
            /\ Len(methods) = Cardinality(Originated(name))
            /\ \A a, b \in 1..Len(methods) :
                 methods[a].message # methods[b].message
                   => methods[a].name # methods[b].name

StagesBeforeWrite ==
    <<"read", "parse", "validate", "template", "render", "format">>

\* C15: a step of the command touches the output file (changes it, or writes
\* it) only when reading, parsing, validation, template parsing, rendering
\* and formatting have all succeeded in this run, in that order, and no error
\* is pending; so a run in which one of them fails leaves the file as it was.
C15_WriteOnlyAfterAllSucceeded ==
    [][ (\/ disk' # disk
         \/ /\ Len(steps') > Len(steps)
            /\ steps'[Len(steps')] = "write")
        => /\ steps = StagesBeforeWrite
           /\ gen.err = Nil
           /\ err = Nil ]_vars

\* A run has ended on a formatting failure, after rendering, and the stale
\* output file is what it was.
C15_Witness ==
    /\ pc = "exited"
    /\ exit = 1
    /\ Len(runs) = 1
    /\ steps = <<"read", "parse", "validate", "template", "render">>
    /\ gen.code.text # NoText
    /\ disk = File("stale", <<NoBytes>>)

\* Generate returned the error of format.Source.
FormatFailed ==
    gen.err # Nil /\ gen.err.name = "failed to format generated code"

\* C16 (as claimed): when formatting fails, the unformatted text reaches the
\* user of the command together with the formatter's error: it is printed
\* with the error or left in the output file.
C16_RawOutputSurfaced ==
    (pc = "exited" /\ FormatFailed) =>
      /\ gen.code.text # NoText
      /\ \/ \E k \in 1..Len(console) :
              console[k].err = gen.err /\ console[k].text = gen.code
         \/ \E k \in 1..Len(disk.content) : disk.content[k] = gen.code

\* C17: the command exits with code 0 exactly when every stage succeeded
\* and the output file holds the generated code; when a flag is missing or
\* loading, validation, generation or the write failed it exits with a
\* non-zero code, the last thing printed being a line on stderr.
C17_ExitCodeTellsSuccess ==
    pc = "exited" =>
      /\ exit \in {0, 1}
      /\ exit = 0 <=> /\ steps = StagesBeforeWrite \o <<"write">>
                      /\ disk = File("written", <<gen.code>>)
                      /\ gen.code.formatted
      /\ exit # 0 => /\ console # <<>>
                     /\ console[Len(console)].stream = "stderr"
      /\ (\/ args.spec = "" \/ args.output = ""
          \/ input # "document"
          \/ Validate(spec) # Nil
          \/ tool.template # "ok"
          \/ FormatFailed
          \/ err # Nil) => exit # 0

\* The write failed after truncating the output file: exit code 1 and a line
\* on stderr.
C17_Witness ==
    /\ pc = "exited"
    /\ exit = 1
    /\ err = WriteError
    /\ steps = StagesBeforeWrite
    /\ disk = TruncatedFile
    /\ console[Len(console)].stream = "stderr"

\* C18: a routing call returns a non-nil error only if a receiver it invoked
\* returned that very error, and returns a nil error whenever every receiver
\* it invoked returned a nil error.
C18_RouterOriginatesNoError ==
    last.returned =>
      /\ last.result.err # Nil =>
           \E k \in 1..Len(last.outs) : last.outs[k].err = last.result.err
      /\ (\A k \in 1..Len(last.outs) : last.outs[k].err = Nil) =>
           last.result.err = Nil

\* A call over two receivers or more returned nil and no response: every
\* receiver it invoked, the Terminal included, had returned nil.
C18_Witness ==
    /\ last.returned
    /\ LastChainLen >= 2
    /\ Len(last.outs) = LastChainLen
    /\ \A k \in 1..Len(last.outs) : last.outs[k].err = Nil
    /\ last.result = [resp |-> ZeroValue, err |-> Nil]

\* C19: every receiver a routing call invokes is passed the context and the
\* message the call was entered with, and the call leaves no invocation
\* behind: each receiver it invoked has returned before it goes on or
\* returns.
C19_ContextAndMessageThreaded ==
    /\ \A t \in Threads :
         \A d \in 1..Len(stack[t]) :
           LET f == stack[t][d]
           IN  /\ Len(f.passed) = Len(f.invoked)
               /\ \A k \in 1..Len(f.passed) :
                    f.passed[k] = [ctx |-> f.ctx, message |-> f.message]
               /\ Len(f.invoked) = Len(f.outs) + (IF f.running THEN 1 ELSE 0)
    /\ last.returned => Len(last.invoked) = Len(last.outs)

\* A call nested in a call entered with (ctx1, m1) was itself entered with
\* (ctx2, m2) and has invoked its second receiver.
C19_Witness ==
    \E t \in Threads :
      /\ Len(stack[t]) = 2
      /\ stack[t][1].ctx = "ctx1"
      /\ stack[t][2].ctx = "ctx2"
      /\ stack[t][2].message = "m2"
      /\ Len(stack[t][2].passed) = 2

\* A routing call run alone on the receivers rs, its receivers returning
\* outs[k], outs[k+1], ... from the position the run is at.
RECURSIVE SoloRun(_, _, _, _)
SoloRun(rs, outs, k, run) ==
    IF k > Len(outs) \/ run.done
    THEN run
    ELSE LET step == RouteStep(rs, run.idx, outs[k])
         IN  SoloRun(rs, outs, k + 1,
                     IF step.done
                     THEN [run EXCEPT !.done = TRUE, !.result = step.result]
                     ELSE [run EXCEPT !.idx = step.idx,
                                      !.invoked = Append(@, step.idx)])

Alone(i, j, outs) ==
    SoloRun(Receivers(spec, i, j), outs, 1,
            [idx |-> 1, invoked |-> <<1>>, done |-> FALSE,
             result |-> [resp |-> ZeroValue, err |-> Nil]])

\* C20: whatever other calls are in progress, a routing call invokes the
\* receivers, in the order, and returns the result of the same call run
\* alone with the same receiver outcomes; and the fields of the messenger
\* stay what the constructor assigned.
C20_ConcurrentCallsIndependent ==
    /\ \A t \in Threads :
         \A d \in 1..Len(stack[t]) :
           LET f    == stack[t][d]
               solo == Alone(f.route, f.msg, f.outs)
           IN  /\ ~solo.done
               /\ f.idx = solo.idx
               /\ f.invoked = IF f.running \/ d < Len(stack[t])
                              THEN solo.invoked
                              ELSE SubSeq(solo.invoked, 1, Len(solo.invoked) - 1)
    /\ last.returned =>
         LET solo == Alone(last.route, last.msg, last.outs)
         IN  /\ solo.done
             /\ last.invoked = solo.invoked
             /\ last.result = solo.result
    /\ pc = "serving" => messenger = NewMessenger(fields, Instances(fields))

\* Two goroutines are inside routing calls at the same time, one at its
\* second receiver while the other invokes its first.
C20_Witness ==
    /\ stack[1] # <<>>
    /\ stack[2] # <<>>
    /\ stack[1][1].idx = 2
    /\ stack[2][1].idx = 1
    /\ stack[2][1].running

RECURSIVE AfterLastDot(_)
AfterLastDot(s) ==
    IF s = <<>> \/ s[Len(s)] = "." THEN <<>>
    ELSE Append(AfterLastDot(SubSeq(s, 1, Len(s) - 1)), s[Len(s)])

\* The base name as described: one leading '*' stripped, the segment after
\* the last '.', one trailing "Proto" stripped.
DescribedBaseName(s) ==
    LET unstarred == IF s # <<>> /\ s[1] = "*" THEN Tail(s) ELSE s
        segment   == AfterLastDot(unstarred)
    IN  IF Len(segment) >= 5
             /\ SubSeq(segment, Len(segment) - 4, Len(segment)) = ProtoSuffix
        THEN SubSeq(segment, 1, Len(segment) - 5)
        ELSE segment

\* The message type tokens of a document.
MessageTokens(s) ==
    UNION { { s.routes[i].messages[j].message :
                j \in 1..Len(s.routes[i].messages) } : i \in 1..Len(s.routes) }

\* The interface of the declared handler called handlerName, in a text
\* interface-gen rendered (the first declaration of the name).
InterfaceOf(s, part, handlerName) ==
    LET hs == { h \in 1..Len(s.handlers) : s.handlers[h].name = handlerName }
    IN  IF hs = {} THEN <<>>
        ELSE part[CHOOSE h \in hs : \A g \in hs : h <= g]

Declares(interface, name, message) ==
    \E k \in 1..Len(interface) :
      interface[k].name = name /\ interface[k].message = message

\* C25: both generators derive the same base name, the described one, from
\* every message type token of the document, so that every routing method
\* of the messenger is declared under its name in the sendable interface of
\* its source, and every Handle method it calls is declared under that name
\* in the receiving interface of the receiver.
C25_GeneratorsAgreeOnNames ==
    (pc = "exited" /\ gen.code.text # NoText) =>
      LET interfaces == IF gen.code.text.tool = "interface-gen"
                        THEN gen.code.text ELSE RenderInterfaces(spec)
          methods    == IF gen.code.text.tool = "messenger-gen"
                        THEN gen.code.text.methods ELSE RoutingMethods(spec)
      IN  /\ \A m \in MessageTokens(spec) :
               /\ baseName(Chars(m)) = baseNameMessenger(Chars(m))
               /\ baseName(Chars(m)) = DescribedBaseName(Chars(m))
          /\ \A k \in 1..Len(methods) :
               /\ Declares(InterfaceOf(spec, interfaces.sendable,
                                       methods[k].source),
                           methods[k].name, methods[k].message)
               /\ \A r \in 1..Len(methods[k].receivers) :
                    Declares(InterfaceOf(spec, interfaces.receiving,
                                         methods[k].receivers[r]),
                             methods[k].handles, methods[k].message)

\* messenger-gen rendered routing methods for a token with the Proto suffix
\* and for one without it; the send of the first is received by B.
C25_Witness ==
    /\ pc = "exited"
    /\ exit = 0
    /\ gen.code.text.tool = "messenger-gen"
    /\ \E k, l \in 1..Len(gen.code.text.methods) :
         /\ gen.code.text.methods[k].message = "*p.NProto"
         /\ gen.code.text.methods[k].name = <<"Send", "N", "From", "A">>
         /\ gen.code.text.methods[k].receivers = <<"B">>
         /\ gen.code.text.methods[l].message = "*p.M"
         /\ gen.code.text.methods[l].handles = <<"Handle", "M">>

\* The API call served last.
Latest == calls[Len(calls)]

\* The ids a ListAccounts call through the whole chain returns for the
\* table db.
Listing(db) ==
    LET r == ListAccounts(Incoming(TestRun), db, TRUE)
    IN  { r.resp.accounts[k].id : k \in 1..Len(r.resp.accounts) }

ListingCount(db) ==
    Len(ListAccounts(Incoming(TestRun), db, TRUE).resp.accounts)

Succeeded(c, op) == c.op = op /\ c.err = Nil

\* C21 (as claimed): after CreateAccount(name) has succeeded, ListAccounts
\* returns one account more than before, the one with id name among them;
\* after DeleteAccount of that id has succeeded with code 200, ListAccounts
\* does not return it any more, and returns as many accounts as before the
\* account was created when the deletion directly follows the creation.
C21_AccountLifecycle ==
    calls # <<>> =>
      /\ Succeeded(Latest, "CreateAccount") =>
           /\ ListingCount(accounts) = ListingCount(Latest.before) + 1
           /\ Latest.arg \in Listing(accounts)
      /\ (Succeeded(Latest, "DeleteAccount") /\ Latest.resp.code = 200) =>
           Latest.arg \notin Listing(accounts)
      /\ (/\ Len(calls) = 2
          /\ Succeeded(calls[1], "CreateAccount")
          /\ Succeeded(calls[2], "DeleteAccount")
          /\ calls[2].resp.code = 200
          /\ calls[2].arg = calls[1].arg) =>
           ListingCount(accounts) = ListingCount(calls[1].before)

\* What the repository returned in the call served last.
RepositoryReturned(c) ==
    { c.hops[k].returned :
        k \in { j \in 1..Len(c.hops) : c.hops[j].handler = "accountRepository" } }

\* C22 (as claimed): an error the repository returns to a DeleteAccount
\* reaches the client as an error, and DeleteAccount of an id that is not in
\* the table gives the client an error.
C22_DeleteErrorReachesClient ==
    (calls # <<>> /\ Latest.op = "DeleteAccount") =>
      /\ (\E r \in RepositoryReturned(Latest) : r.err # Nil) => Latest.err # Nil
      /\ Latest.arg \notin Rows(Latest.before) => Latest.err # Nil

\* C30: MiddleOne forwards only after ExtractUserID succeeded.  When it
\* failed, MiddleOne returns (nil, that error) and no handler is invoked
\* after it; when it succeeded, every handler invoked after MiddleOne gets
\* a context carrying the user id, and MiddleOne returns the downstream
\* result, or nil and the downstream error, unchanged.
C30_ForwardOnlyWhenAuthenticated ==
    (calls # <<>> /\ Latest.op = "CreateAccount" /\ Latest.hops # <<>>) =>
      LET first == Latest.hops[1]
          auth  == ExtractUserID(Latest.ctx)
      IN  /\ first.handler = "middlewareOne"
          /\ auth.err # Nil =>
               /\ Len(Latest.hops) = 1
               /\ first.forwarded = NotForwarded
               /\ first.returned = [resp |-> NilResponse, err |-> auth.err]
               /\ accounts = Latest.before
          /\ auth.err = Nil =>
               /\ auth.userID # ""
               /\ Len(Latest.hops) > 1
               /\ \A k \in 2..Len(Latest.hops) :
                    UserIDFromContext(Latest.hops[k].ctx) = auth.userID
               /\ first.returned.err = first.forwarded.err
               /\ first.forwarded.err = Nil =>
                    first.returned = first.forwarded
               /\ first.forwarded.err # Nil =>
                    first.returned.resp = NilResponse

\* An unauthenticated CreateAccount was turned away by MiddleOne, followed
\* by one of an active session that reached the repository with the user id
\* and created the account.
C30_Witness ==
    /\ Len(calls) = 2
    /\ calls[1].op = "CreateAccount"
    /\ calls[1].ctx.session = NoCookie
    /\ Len(calls[1].hops) = 1
    /\ calls[1].err # Nil
    /\ calls[2].op = "CreateAccount"
    /\ calls[2].ctx.session = Alice
    /\ Len(calls[2].hops) = 3
    /\ calls[2].hops[3].handler = "accountRepository"
    /\ UserIDFromContext(calls[2].hops[3].ctx) = "alice"
    /\ calls[2].err = Nil
    /\ accounts = <<NameAbc>>

(***************************************************************************)
(* C23: GetPostgresPool is a singleton: for any sequence or interleaving   *)
(* of calls, every successful call returned the same pool and at most one  *)
(* pool was created.                                                       *)
(***************************************************************************)
PoolsReturned ==
    UNION { { getters[g].results[i].pool :
              i \in { j \in 1..Len(getters[g].results) :
                      getters[g].results[j].err = Nil } } :
            g \in Goroutines }

C23_PoolIsSingleton ==
    /\ pools <= 1
    /\ Cardinality(PoolsReturned) <= 1

(***************************************************************************)
(* C26: WaitUntilReady has returned nil only when every registered server  *)
(* has bound its listening socket, and the ready signal was raised at most *)
(* once.                                                                   *)
(***************************************************************************)
\* WaitUntilReady returned nil.
ReturnedReady == harness.test # "WaitUntilReady" /\ ~harness.failed

C26_ReadyOnlyWhenAllBound ==
    /\ ReturnedReady => \A s \in Registered : servers[s].bound
    /\ base.ready <= 1

C26_Witness ==
    /\ harness.test = "ready"
    /\ base.ready = 1
    /\ \A s \in Registered : servers[s].bound

(***************************************************************************)
(* C27: once Shutdown was called (the context is cancelled), every server  *)
(* goroutine stops and Launch returns in the end, and a caller waiting on  *)
(* serverDone goes on, wherever the servers were when Shutdown arrived.    *)
(* A port that cannot be bound ends the process in log.Fatalf instead.     *)
(***************************************************************************)
AllStopped ==
    /\ \A s \in Registered : servers[s].at = "returned"
    /\ harness.launch = "returned"
    /\ harness.serverDone

BuildFailed == build.at = "returned" /\ build.result # Nil

ClientsClosed ==
    /\ build.postgresClient # "open"
    /\ \A i \in 1..Len(build.databases) : build.databases[i] = "closed"

ServersShutDown ==
    \A i \in 1..Len(build.servers) : build.servers[i] = "shut down"

C28_BuildErrorLeavesNothingOpen ==
    BuildFailed => ClientsClosed /\ ServersShutDown

(***************************************************************************)
(* C29: over the runs of RunDbmateMigrations on one database, no version   *)
(* is applied twice, the migrations a run applies are in ascending version *)
(* order, schema_migrations holds exactly the versions whose up SQL was    *)
(* committed, and a run applies nothing after a migration of it failed.    *)
(***************************************************************************)
Committed == database.committed

AppliedAtMostOnce ==
    \A i, j \in 1..Len(Committed) :
        i # j => Committed[i].version # Committed[j].version

AscendingWithinRun ==
    \A i, j \in 1..Len(Committed) :
        i < j /\ Committed[i].run = Committed[j].run
            => StringLess(Committed[i].version, Committed[j].version)

RecordedIffCommitted ==
    database.schema_migrations =
        { Committed[i].version : i \in 1..Len(Committed) }

FailureStopsRun ==
    \A r \in 1..Len(migration.failedAt) :
        migration.failedAt[r] >= 0
            => \A k \in (migration.failedAt[r] + 1)..Len(Committed) :
                   Committed[k].run # r

C29_MigrationsAppliedOnceInOrder ==
    /\ AppliedAtMostOnce
    /\ AscendingWithinRun
    /\ RecordedIffCommitted
    /\ FailureStopsRun

\* Two runs: the first applied "1" and failed at its next migration, the
\* second skipped "1" and applied "10" and then "2".
C29_Witness ==
    /\ Len(Committed) = 3
    /\ Len(migration.failedAt) = 2
    /\ migration.failedAt[1] = 1
    /\ Committed[1] = [version |-> <<1>>, run |-> 1]
    /\ Committed[2] = [version |-> <<1, 0>>, run |-> 2]
    /\ Committed[3] = [version |-> <<2>>, run |-> 2]
    /\ migration.at = "idle"
====
